---- MODULE Spec2Model ----
(***************************************************************************)
(* Product intake of the ethiostore bot (src/features/products.py): the    *)
(* per-user FSM draft kept in aiogram's FSM storage, the process-wide      *)
(* album buffer with its delayed merge task, and the commit of a draft as  *)
(* a Product.                                                              *)
(*                                                                         *)
(* Beside the intake: the posting schedules and the periodic sweep of      *)
(* src/features/scheduler.py with the channel and its recorded posts, the  *)
(* like, save and order buttons of src/features/engagement.py, and the     *)
(* caption rendering of src/utils/helpers.py.                              *)
(*                                                                         *)
(* One seller is modelled.  Handlers run as asyncio tasks on one event     *)
(* loop (bot.py:198 and views.py:43 build Dispatcher() with its default    *)
(* in-memory storage and no event isolation), so a handler is atomic       *)
(* between two awaits that really suspend (Telegram calls, database calls, *)
(* asyncio.sleep) and handlers of the same user interleave at those        *)
(* points.  Calls on the in-memory FSM storage do not suspend.             *)
(***************************************************************************)
EXTENDS Integers, Sequences, FiniteSets, TLC

\* ---------------------------------------------------------------- bounds
MaxPhotos == 2        \* photo messages received in one run
MaxSessions == 1      \* /addproduct commands in one run
MaxGroups == 1        \* distinct media_group_id values
MaxInFlight == 2      \* handlers suspended at an await at the same time
MaxProducts == 1      \* Products persisted in one run
MaxBadImages == 1     \* photo files the watermark step cannot process in one run
MaxSchedules == 2     \* PostSchedule rows created in one run
MaxCatalog == 1       \* Products the seller owns when schedules are made
MaxClock == 36        \* last hour the run lasts to
MaxMessages == 2      \* messages sent to the channel in one run
MaxStartHour == 47    \* latest hour a run of schedule making starts at
MaxBuyers == 2        \* users tapping the buttons under a product
MaxOrders == 2        \* Order button taps in one run
MaxText == 2          \* characters of a description
MaxTxns == 2          \* toggle transactions open at the same time
MaxPreviewProducts == 2   \* Products persisted in a run that starts at a preview
MaxLikes == 2         \* counter value at which no further toggle is begun

\* ------------------------------------------------------ program constants
PhotoCap == 8                 \* "max 8 photos total"
MAX_FREE_PRODUCTS == 30

Groups == 1..MaxGroups
PhotoIds == 1..MaxPhotos
Slots == 1..MaxInFlight
Cells == 1..(MaxInFlight + 2)

\* A downloaded original file and the separate file process_multiple_photos
\* writes the watermark to.
OrigPath(p) == <<"orig", p>>
StampedPath(p) == <<"wm", p>>
NoPath == <<>>

Range(q) == {q[i] : i \in 1..Len(q)}

VARIABLES
    fsmState,               \* state tag of the draft (FSMContext state), "none" = None
    data,                   \* attribute bag of the draft (FSMContext data)
    cells,                  \* list objects holding collected_photos lists
    deepCopy,               \* whether the FSM storage hands out copies of stored lists
    unreadable,             \* photo messages whose file Pillow cannot process
    files,                  \* image files in the images directory
    album_buffer,           \* media_group_id -> buffered photos
    album_tasks_scheduled,  \* media_group_ids with a scheduled _process_album_later
    tasks,                  \* media_group_id -> _process_album_later tasks sleeping
    hs,                     \* handlers suspended at an await
    nphotos,                \* photo messages received in this run
    sessions,               \* /addproduct commands received in this run
    kb,                     \* inline keyboards the chat shows, by the buttons they carry
    products,               \* persisted Products
    out,                    \* last notice the bot sent to the seller
    merges,                 \* media_group_id -> merge events so far
    cancelled_albums,       \* media_group_ids buffered with their timer pending when
                            \* the draft was last cancelled, until that timer fires
    clock,                  \* datetime.now(), in hours since midnight of day 0
    catalog,                \* product id -> state of the Product row
    schedules,              \* schedule id -> PostSchedule row
    creating,               \* schedule_time_selected suspended before its last write
    sweep,                  \* the running check_and_post_scheduled job, if any
    outcome,                \* schedule id -> what the last sweep that looked at it did
    channel,                \* messages in the seller's channel, by message id
    channel_posts,          \* message ids recorded as ChannelPost rows
    engagement,             \* buyer -> Engagement row with the shown Product
    counts,                 \* likes_count, saves_count, orders_count of that Product
    orders,                 \* Order rows of that Product
    ordering,               \* handle_order_start handlers past db.create_order
    last_tap,               \* the button tapped last, by whom, how often in a row,
                            \* and the flag and the counter before the first of these taps
    rendered,               \* the last call of format_product_caption and its result
    shown,                  \* the Product row and the seller a handler renders from
    dispatch,               \* the handler that made the last call, and what it did with it
    txn                     \* toggle transactions between BEGIN and COMMIT

vars == <<fsmState, data, cells, deepCopy, unreadable, files, album_buffer, album_tasks_scheduled,
          tasks, hs, nphotos, sessions, kb, products, out, merges, cancelled_albums,
          clock, catalog, schedules, creating, sweep, outcome, channel, channel_posts,
          engagement, counts, orders, ordering, last_tap, rendered, shown, dispatch, txn>>

\* The scheduler's and the channel's state, which no intake handler touches.
engageVars == <<engagement, counts, orders, ordering, last_tap, rendered>>

\* What the rendering handlers and the toggle transactions work on.
viewVars == <<shown, dispatch, txn>>

storeVars == <<clock, catalog, schedules, creating, sweep, outcome, channel, channel_posts,
               engageVars, viewVars>>

envVars == <<deepCopy, unreadable, storeVars>>

\* The intake's state, which no scheduler or channel handler touches.
intakeVars == <<fsmState, data, cells, deepCopy, unreadable, files, album_buffer,
                album_tasks_scheduled, tasks, hs, nphotos, sessions, kb, products, out,
                merges, cancelled_albums>>

\* ------------------------------------------------- scheduler and channel
DayHours == 24
HourStep == 6                 \* hours between two looks at the clock
None == -1                    \* a NULL datetime

ScheduleIds == 1..MaxSchedules
ProductIds == 1..MaxCatalog
MessageIds == 1..MaxMessages

\* The interval_<n> and time_<hh:mm> buttons.
IntervalButtons == {1, 2, 3, 7}
TimeButtons == {"09:00", "12:00", "15:00", "18:00"}

\* The buttons the seller taps in the runs with a scheduler.
TappedIntervals == {1}
TappedTimes == {"09:00"}

\* A PostSchedule row; product = 0 where no row with that id exists yet and
\* product = -1 where the row was deleted.
NoSchedule ==
    [product |-> 0, interval_days |-> 0, post_time |-> "", is_active |-> FALSE,
     next_post_at |-> None, last_posted_at |-> None]

DeletedSchedule == [NoSchedule EXCEPT !.product = -1]

NoSweep == [running |-> FALSE, now |-> None, queue |-> <<>>, done |-> <<>>]

NoCreation == [id |-> 0, next_post |-> None]

Buyers == 1..MaxBuyers

\* An Engagement row; exists = FALSE where get_or_create has not made it.
NoEngagement == [exists |-> FALSE, liked |-> FALSE, saved |-> FALSE]

NoTap == [user |-> 0, button |-> "none", times |-> 0, flag |-> FALSE, count |-> 0]

Txns == 1..MaxTxns

\* A transaction slot nobody uses; liked and saved are the columns of the
\* Engagement row as the transaction read them.
NoTxn == [pc |-> "idle", user |-> 0, button |-> "none", liked |-> FALSE, saved |-> FALSE]

\* Python's None where a text is expected; a text is a sequence of
\* characters.
NoText == <<"None">>

NoRender == [product_type |-> "none", for_channel |-> FALSE, title |-> NoText,
             description |-> NoText, price |-> None, category |-> NoText,
             seller_name |-> NoText, seller_phone |-> NoText, category_fields |-> <<>>,
             caption |-> <<>>]

\* A Product nobody has liked, saved or ordered.
NoTaps ==
    /\ engagement = [u \in Buyers |-> NoEngagement]
    /\ counts = [likes_count |-> 0, saves_count |-> 0, orders_count |-> 0]
    /\ orders = 0
    /\ ordering = 0
    /\ last_tap = NoTap
    /\ txn = [t \in Txns |-> NoTxn]

\* No handler has a Product at hand.
NotShown ==
    /\ shown = NoRender
    /\ dispatch = "none"

\* Nobody has tapped a button and no caption was rendered.
Untouched ==
    /\ NoTaps
    /\ rendered = NoRender
    /\ NotShown

\* The database and the channel before any schedule, sweep or channel post.
EmptyStore ==
    /\ clock = 0
    /\ catalog = [p \in ProductIds |-> "missing"]
    /\ schedules = [i \in ScheduleIds |-> NoSchedule]
    /\ creating = NoCreation
    /\ sweep = NoSweep
    /\ outcome = [i \in ScheduleIds |-> "none"]
    /\ channel = <<>>
    /\ channel_posts = {}
    /\ Untouched

\* ------------------------------------------------------------ draft store
\* A key that data.get() would not find is held as "absent", -1, 0 or <<>>.
EmptyData ==
    [product_type |-> "absent", category |-> "absent", collected_photos |-> 0,
     all_images |-> <<>>, all_original_images |-> <<>>, main_image_index |-> -1,
     photo_path |-> NoPath, original_photo_path |-> NoPath,
     title |-> -1, description |-> -1, price |-> -1,
     category_fields |-> "absent", current_field_index |-> -1, field_values |-> <<>>]

\* Keyboards in the chat: messages showing the type buttons, messages showing
\* the category buttons, whether a prompt with the Done button exists, the
\* largest number of select_main buttons on a selection prompt, previews
\* showing the Create button, and whether a prompt with a Cancel button exists.
NoKeyboards == [type |-> 0, category |-> 0, done |-> FALSE, select |-> 0,
                confirm |-> 0, cancel |-> FALSE]

NoProduct == [product_type |-> "absent"]

Idle == [kind |-> "idle", pc |-> "idle", photo |-> 0, gid |-> 0, cp |-> 0,
         prod |-> NoProduct]

InFlight == {s \in Slots : hs[s].kind # "idle"}

\* The lowest idle slot takes the next handler that suspends.
FreeSlot == CHOOSE s \in Slots : hs[s].kind = "idle" /\ \A t \in Slots : t < s => hs[t].kind # "idle"

Refs(d, h) == ({d.collected_photos} \cup {h[s].cp : s \in Slots}) \ {0}

FreeCell(refs) == CHOOSE c \in Cells : c \notin refs /\ \A b \in Cells : b < c => b \in refs

\* List objects nobody refers to any more are dropped.
Collect(cs, d, h) == [c \in Cells |-> IF c \in Refs(d, h) THEN cs[c] ELSE <<>>]

\* data = await state.get_data(); collected_photos = data.get("collected_photos", [])
\* The result is the list object the handler goes on to append to: a fresh
\* empty list when the key is absent, otherwise the stored list itself, or
\* a copy of it when the storage copies.
GetCollected(d, cs, h) ==
    LET fresh == FreeCell(Refs(d, h)) IN
    IF d.collected_photos = 0 THEN [ref |-> fresh, cells |-> [cs EXCEPT ![fresh] = <<>>]]
    ELSE IF deepCopy THEN [ref |-> fresh, cells |-> [cs EXCEPT ![fresh] = cs[d.collected_photos]]]
    ELSE [ref |-> d.collected_photos, cells |-> cs]

Collected == IF data.collected_photos = 0 THEN <<>> ELSE cells[data.collected_photos]

TypeOK ==
    /\ fsmState \in {"none", "waiting_product_type", "waiting_category", "waiting_photo",
                     "waiting_main_image", "waiting_title", "waiting_description",
                     "waiting_price", "waiting_category_fields", "confirming"}
    /\ deepCopy \in BOOLEAN
    /\ unreadable \subseteq PhotoIds
    /\ \A f \in files : \E p \in 1..(MaxPhotos + PhotoCap) : f \in {OrigPath(p), StampedPath(p)}
    /\ cancelled_albums \subseteq Groups
    /\ data.collected_photos \in 0..(MaxInFlight + 2)
    /\ album_tasks_scheduled \subseteq Groups
    /\ nphotos \in 0..MaxPhotos
    /\ \A g \in Groups : tasks[g] \in Nat /\ merges[g] \in Nat
    /\ clock \in Nat
    /\ \A p \in ProductIds : catalog[p] \in {"active", "inactive", "missing"}
    /\ Len(channel) <= MaxMessages
    /\ channel_posts \subseteq MessageIds
    /\ orders \in 0..MaxOrders
    /\ ordering \in 0..MaxOrders

Init ==
    /\ fsmState = "none"
    /\ data = EmptyData
    /\ cells = [c \in Cells |-> <<>>]
    /\ deepCopy \in BOOLEAN
    /\ unreadable \in {b \in SUBSET PhotoIds : Cardinality(b) <= MaxBadImages}
    /\ files = {}
    /\ album_buffer = [g \in Groups |-> <<>>]
    /\ album_tasks_scheduled = {}
    /\ tasks = [g \in Groups |-> 0]
    /\ hs = [s \in Slots |-> Idle]
    /\ nphotos = 0
    /\ sessions = 0
    /\ kb = NoKeyboards
    /\ products = <<>>
    /\ out = "none"
    /\ merges = [g \in Groups |-> 0]
    /\ cancelled_albums = {}
    /\ EmptyStore

albumVars == <<album_buffer, album_tasks_scheduled, tasks, merges, cancelled_albums>>

\* ------------------------------------------------------- session start
\* /addproduct: the seller is registered and below the free-plan limit;
\* only the state tag is written, the data bag is left as it is.
cmd_add_product ==
    /\ sessions < MaxSessions
    /\ Len(products) < MAX_FREE_PRODUCTS
    /\ sessions' = sessions + 1
    /\ fsmState' = "waiting_product_type"
    /\ kb' = [kb EXCEPT !.type = @ + 1]
    /\ out' = "choose_type"
    /\ UNCHANGED <<data, cells, envVars, files, albumVars, hs, nphotos, products>>

\* Callback product_type_standard (no state filter).  sent = FALSE: edit_text
\* raised, so neither the keyboard nor the state tag changes.
handle_standard_product ==
    \E sent \in BOOLEAN :
        /\ kb.type > 0
        /\ data' = [data EXCEPT !.product_type = "standard"]
        /\ fsmState' = IF sent THEN "waiting_category" ELSE fsmState
        /\ kb' = IF sent THEN [kb EXCEPT !.type = @ - 1, !.category = @ + 1] ELSE kb
        /\ out' = IF sent THEN "choose_category" ELSE "error"
        /\ UNCHANGED <<cells, envVars, files, albumVars, hs, nphotos, sessions, products>>

\* Callback product_type_custom (no state filter).
handle_custom_description ==
    \E sent \in BOOLEAN :
        /\ kb.type > 0
        /\ data' = [data EXCEPT !.product_type = "custom_description"]
        /\ fsmState' = IF sent THEN "waiting_photo" ELSE fsmState
        /\ kb' = IF sent THEN [kb EXCEPT !.type = @ - 1] ELSE kb
        /\ out' = IF sent THEN "send_photo" ELSE "error"
        /\ UNCHANGED <<cells, envVars, files, albumVars, hs, nphotos, sessions, products>>

Categories == {"phones"}

\* Callback category_<name> (no state filter).
handle_category_selection ==
    \E category \in Categories, sent \in BOOLEAN :
        /\ kb.category > 0
        /\ data' = [data EXCEPT !.category = category]
        /\ fsmState' = IF sent THEN "waiting_photo" ELSE fsmState
        /\ kb' = IF sent THEN [kb EXCEPT !.category = @ - 1] ELSE kb
        /\ out' = IF sent THEN "send_photo" ELSE "error"
        /\ UNCHANGED <<cells, envVars, files, albumVars, hs, nphotos, sessions, products>>

\* -------------------------------------------------------- photo arrival
\* product_photo_received up to its first suspension (get_file): the state
\* filter passed, the draft was read and collected_photos bound to a list.
product_photo_received_begin ==
    \E g \in 0..MaxGroups :
        /\ fsmState = "waiting_photo"
        /\ nphotos < MaxPhotos
        /\ InFlight # Slots
        /\ LET r == GetCollected(data, cells, hs)
               h2 == [hs EXCEPT ![FreeSlot] = [Idle EXCEPT !.kind = "photo", !.pc = "download",
                                                          !.photo = nphotos + 1, !.gid = g,
                                                          !.cp = r.ref]]
           IN /\ hs' = h2
              /\ cells' = Collect(r.cells, data, h2)
        /\ nphotos' = nphotos + 1
        /\ UNCHANGED <<fsmState, data, envVars, files, albumVars, sessions, kb, products, out>>

\* get_file or download_file raised: the except branch answers with an error.
product_photo_received_fail(s) ==
    /\ hs[s].kind = "photo"
    /\ hs' = [hs EXCEPT ![s] = Idle]
    /\ cells' = Collect(cells, data, hs')
    /\ kb' = [kb EXCEPT !.cancel = TRUE]
    /\ out' = "error_processing_photo"
    /\ UNCHANGED <<fsmState, data, envVars, files, albumVars, nphotos, sessions, products>>

\* Faulty variant of not_scheduled that schedules a task for every album
\* photo; C22_OneTimerPerBatch fails with it.
not_scheduled_ignored(g) == TRUE

\* if group_id not in album_tasks_scheduled:
not_scheduled(g) == g \notin album_tasks_scheduled

\* The download finished.  An album photo is buffered under its group id and
\* the processing task scheduled once per group id; a standalone photo is
\* appended to the handler's list, which is written back to the draft.
product_photo_received_store(s) ==
    /\ hs[s].kind = "photo"
    /\ LET p == hs[s].photo
           g == hs[s].gid
           h2 == [hs EXCEPT ![s] = Idle]
       IN IF g # 0
          THEN /\ album_buffer' = [album_buffer EXCEPT ![g] = Append(@, p)]
               /\ IF not_scheduled(g)
                  THEN /\ album_tasks_scheduled' = album_tasks_scheduled \cup {g}
                       /\ tasks' = [tasks EXCEPT ![g] = @ + 1]
                  ELSE UNCHANGED <<album_tasks_scheduled, tasks>>
               /\ hs' = h2
               /\ cells' = Collect(cells, data, h2)
               /\ UNCHANGED <<data, kb, out, merges, cancelled_albums>>
          ELSE LET c == hs[s].cp
                   cs2 == [cells EXCEPT ![c] = Append(@, p)]
                   d2 == [data EXCEPT !.collected_photos = c]
               IN /\ data' = d2
                  /\ hs' = h2
                  /\ cells' = Collect(cs2, d2, h2)
                  /\ kb' = [kb EXCEPT !.cancel = TRUE, !.done = @ \/ Len(cs2[c]) = 1]
                  /\ out' = IF Len(cs2[c]) = 1 THEN "photo_received" ELSE "additional_photo"
                  /\ UNCHANGED albumVars
    /\ files' = files \cup {OrigPath(hs[s].photo)}
    /\ UNCHANGED <<fsmState, envVars, nphotos, sessions, products>>

\* Faulty variant of Concat that keeps only the first buffered photo;
\* C2_BufferedMergedOnce fails with it.
ConcatFirstOnly(a, b) == IF b = <<>> THEN a ELSE Append(a, Head(b))

\* for p in photos: collected_photos.append(...)
RECURSIVE Concat(_, _)
Concat(a, b) == IF b = <<>> THEN a ELSE Concat(Append(a, Head(b)), Tail(b))

\* _process_album_later after its sleep: nothing buffered -> only the flag is
\* dropped; otherwise the buffered photos are appended to the draft's
\* collected_photos, the buffer entry and flag removed, one prompt sent.
process_album_later(g) ==
    /\ tasks[g] > 0
    /\ tasks' = [tasks EXCEPT ![g] = @ - 1]
    /\ album_tasks_scheduled' = album_tasks_scheduled \ {g}
    /\ cancelled_albums' = cancelled_albums \ {g}
    /\ LET photos == album_buffer[g] IN
       IF photos = <<>>
       THEN UNCHANGED <<data, cells, album_buffer, kb, out, merges>>
       ELSE LET r == GetCollected(data, cells, hs)
                cs2 == [r.cells EXCEPT ![r.ref] = Concat(@, photos)]
                d2 == [data EXCEPT !.collected_photos = r.ref]
            IN /\ data' = d2
               /\ cells' = Collect(cs2, d2, hs)
               /\ album_buffer' = [album_buffer EXCEPT ![g] = <<>>]
               /\ kb' = [kb EXCEPT !.cancel = TRUE, !.done = TRUE]
               /\ out' = "photo_received"
               /\ merges' = [merges EXCEPT ![g] = @ + 1]
    /\ UNCHANGED <<fsmState, envVars, files, hs, nphotos, sessions, products>>

\* ---------------------------------------------------------------- cancel
\* Faulty variant of handle_cancel_fsm that edits the tapped message before
\* it clears the draft, so a tap on a preview raises with the draft intact;
\* C16_CancelClears fails with it.
handle_cancel_fsm_edit_first ==
    \E src \in {"type", "category", "prompt", "preview"} :
        /\ \/ src = "type" /\ kb.type > 0 /\ kb' = [kb EXCEPT !.type = @ - 1]
           \/ src = "category" /\ kb.category > 0 /\ kb' = [kb EXCEPT !.category = @ - 1]
           \/ src = "prompt" /\ kb.cancel /\ kb' = kb
           \/ src = "preview" /\ kb.confirm > 0 /\ kb' = kb
        /\ fsmState' = IF src = "preview" THEN fsmState ELSE "none"
        /\ data' = IF src = "preview" THEN data ELSE EmptyData
        /\ cells' = Collect(cells, data', hs)
        /\ out' = IF src = "preview" THEN "error_cancelling" ELSE "cancelled"
        /\ cancelled_albums' = {g \in Groups : album_buffer[g] # <<>> /\ tasks[g] > 0}
        /\ UNCHANGED <<envVars, files, album_buffer, album_tasks_scheduled, tasks, merges,
                       hs, nphotos, sessions, products>>

\* Callback cancel_fsm (no state filter): state.clear() drops tag and data,
\* then the tapped message is edited, which removes its keyboard.  src is
\* the message tapped: one with the type buttons, one with the category
\* buttons, another text prompt carrying a Cancel button, or a preview (a
\* photo message, on which edit_text raises: the except branch answers with
\* an error and the keyboard stays).
handle_cancel_fsm ==
    \E src \in {"type", "category", "prompt", "preview"} :
        /\ \/ src = "type" /\ kb.type > 0 /\ kb' = [kb EXCEPT !.type = @ - 1]
           \/ src = "category" /\ kb.category > 0 /\ kb' = [kb EXCEPT !.category = @ - 1]
           \/ src = "prompt" /\ kb.cancel /\ kb' = kb
           \/ src = "preview" /\ kb.confirm > 0 /\ kb' = kb
        /\ fsmState' = "none"
        /\ data' = EmptyData
        /\ cells' = Collect(cells, EmptyData, hs)
        /\ out' = IF src = "preview" THEN "error_cancelling" ELSE "cancelled"
        /\ cancelled_albums' = {g \in Groups : album_buffer[g] # <<>> /\ tasks[g] > 0}
        /\ UNCHANGED <<envVars, files, album_buffer, album_tasks_scheduled, tasks, merges,
                       hs, nphotos, sessions, products>>

\* ------------------------------------------------------- done with photos
\* await add_watermark(image_path, store_name, output_path): the path written,
\* or image_path itself when processing the image raised.
add_watermark(p) == IF p \in unreadable THEN OrigPath(p) ELSE StampedPath(p)

RECURSIVE Watermarked(_)
Watermarked(photos) ==
    IF photos = <<>> THEN <<>> ELSE <<add_watermark(Head(photos))>> \o Watermarked(Tail(photos))

\* Faulty variant of Originals that keeps the original of the first photo
\* only; C12_ParallelLists fails with it.
OriginalsOfFirst(photos) == IF photos = <<>> THEN <<>> ELSE <<OrigPath(Head(photos))>>

RECURSIVE Originals(_)
Originals(photos) ==
    IF photos = <<>> THEN <<>> ELSE <<OrigPath(Head(photos))>> \o Originals(Tail(photos))

\* Faulty variant of TextPhase that starts every product type at the title;
\* C11_SelectionOutcome fails with it.
TextPhaseTitleFirst(product_type) == "waiting_title"

\* State the text-field phase starts in for a product type.
TextPhase(product_type) ==
    IF product_type = "custom_description" THEN "waiting_description" ELSE "waiting_title"

\* process_single_photo(message, state) begins with photo = message.photo[-1].
\* handle_photos_done passes callback.message, the text prompt that carries
\* the Done button (sent by message.answer at lines 478 and 553), whose photo
\* attribute is None: the subscript raises TypeError before anything else
\* runs and handle_photos_done's except branch answers with an error.  With
\* a photo p on the message it would download p and watermark it in place
\* (output path = input path).
process_single_photo(p) ==
    IF p = 0
    THEN /\ out' = "alert_error_processing_photos"
         /\ UNCHANGED <<data, fsmState, kb>>
    ELSE /\ data' = [data EXCEPT !.photo_path = OrigPath(p), !.main_image_index = 0,
                                 !.all_images = <<OrigPath(p)>>,
                                 !.all_original_images = <<OrigPath(p)>>]
         /\ fsmState' = TextPhase(data.product_type)
         /\ kb' = [kb EXCEPT !.cancel = TRUE]
         /\ out' = "photo_received"

\* The photo attribute of the message that carries the Done button.
PromptPhoto == 0

\* Faulty variant of no_photos that lets an empty list pass;
\* C10_EmptyAlbum fails with it.
no_photos_never(collected_photos) == FALSE

\* if not collected_photos:
no_photos(collected_photos) == collected_photos = <<>>

\* Callback photos_done in state waiting_photo, up to the first suspension.
\* No photo: alert.  One photo: process_single_photo.  More: the handler
\* suspends in process_multiple_photos at db.get_user, holding the list.
handle_photos_done_begin ==
    /\ kb.done
    /\ fsmState = "waiting_photo"
    /\ LET r == GetCollected(data, cells, hs)
           n == Len(r.cells[r.ref])
       IN IF no_photos(r.cells[r.ref])
          THEN /\ out' = "empty_album"
               /\ UNCHANGED <<fsmState, data, cells, hs, kb>>
          ELSE IF n = 1
          THEN /\ process_single_photo(PromptPhoto)
               /\ UNCHANGED <<cells, hs>>
          ELSE /\ InFlight # Slots
               /\ LET h2 == [hs EXCEPT ![FreeSlot] = [Idle EXCEPT !.kind = "done",
                                                         !.pc = "lookup", !.cp = r.ref]]
                  IN /\ hs' = h2
                     /\ cells' = Collect(r.cells, data, h2)
               /\ UNCHANGED <<fsmState, data, kb, out>>
    /\ UNCHANGED <<envVars, files, albumVars, nphotos, sessions, products>>

\* process_multiple_photos after db.get_user: every photo of the list is
\* watermarked into its own file and both path lists are stored; the
\* handler then suspends sending the gallery and the selection prompt.  With
\* no path at all it answers that processing failed and returns.
process_multiple_photos_stamp(s) ==
    /\ hs[s].kind = "done" /\ hs[s].pc = "lookup"
    /\ IF Watermarked(cells[hs[s].cp]) = <<>>
       THEN /\ out' = "failed_to_process_photos"
            /\ kb' = [kb EXCEPT !.cancel = TRUE]
            /\ hs' = [hs EXCEPT ![s] = Idle]
            /\ cells' = Collect(cells, data, hs')
            /\ UNCHANGED data
       ELSE /\ data' = [data EXCEPT !.all_images = Watermarked(cells[hs[s].cp]),
                                    !.all_original_images = Originals(cells[hs[s].cp])]
            /\ hs' = [hs EXCEPT ![s].pc = "sending", ![s].photo = Len(cells[hs[s].cp])]
            /\ UNCHANGED <<cells, kb, out>>
    /\ files' = files \cup (Range(Watermarked(cells[hs[s].cp])) \ Range(Originals(cells[hs[s].cp])))
    /\ UNCHANGED <<fsmState, envVars, albumVars, nphotos, sessions, products>>

\* Both messages were delivered: the state tag is written.
process_multiple_photos_finish(s) ==
    /\ hs[s].kind = "done" /\ hs[s].pc = "sending"
    /\ fsmState' = "waiting_main_image"
    /\ kb' = [kb EXCEPT !.cancel = TRUE,
                        !.select = IF hs[s].photo > @ THEN hs[s].photo ELSE @]
    /\ out' = "select_main"
    /\ hs' = [hs EXCEPT ![s] = Idle]
    /\ cells' = Collect(cells, data, hs')
    /\ UNCHANGED <<data, envVars, files, albumVars, nphotos, sessions, products>>

\* db.get_user or a send raised: the except branch answers with an error.
process_multiple_photos_fail(s) ==
    /\ hs[s].kind = "done"
    /\ kb' = [kb EXCEPT !.cancel = TRUE]
    /\ out' = "error_processing_photos"
    /\ hs' = [hs EXCEPT ![s] = Idle]
    /\ cells' = Collect(cells, data, hs')
    /\ UNCHANGED <<fsmState, data, envVars, files, albumVars, nphotos, sessions, products>>

\* The body of handle_main_image_selection for callback data
\* select_main_<main_index>.  sent = FALSE: a reply raised after the draft
\* was updated, so the state tag is not written and the except branch answers.
select_main(main_index, sent) ==
    /\ fsmState = "waiting_main_image"
    /\ IF main_index < 0 \/ main_index >= Len(data.all_images)
       THEN /\ out' = "invalid_selection"
            /\ UNCHANGED <<data, fsmState, kb>>
       ELSE /\ data' = [data EXCEPT !.photo_path = data.all_images[main_index + 1],
                                    !.original_photo_path = data.all_original_images[main_index + 1],
                                    !.main_image_index = main_index]
            /\ fsmState' = IF sent THEN TextPhase(data.product_type) ELSE fsmState
            /\ kb' = IF sent THEN [kb EXCEPT !.cancel = TRUE] ELSE kb
            /\ out' = IF sent THEN "main_selected" ELSE "error_selecting_main_image"
    /\ UNCHANGED <<cells, envVars, files, albumVars, hs, nphotos, sessions, products>>

\* Callback select_main_<i> in state waiting_main_image, tapped on a
\* selection prompt in the chat (one button per image the prompt was built for).
handle_main_image_selection ==
    \E main_index \in 0..(kb.select - 1), sent \in BOOLEAN : select_main(main_index, sent)

\* ----------------------------------------------------------- text fields
\* float("nan"): a value on which every ordering comparison is False.
NaN == -2

\* price <= bound and price > bound on Python floats.
float_le(price, bound) == price # NaN /\ price <= bound
float_gt(price, bound) == price # NaN /\ price > bound

\* Lengths of the stripped texts tried as title and description, and the
\* values float() gives for the texts tried as price (-1: float() raises
\* ValueError).
TitleInputs == {2, 3, 201}
DescriptionInputs == {1, 1001}
PriceInputs == {-1, 0, 2500, 10000001, NaN}

\* get_category_fields(category): the field keys in prompt order.
get_category_fields(category) ==
    IF category = "laptops" THEN <<"brand", "model", "processor", "ram", "storage", "condition">>
    ELSE IF category = "phones" THEN <<"brand", "model", "storage", "condition", "battery">>
    ELSE IF category = "cars" THEN <<"brand", "model", "year", "mileage", "fuel_type", "condition">>
    ELSE IF category = "houses" THEN <<"type", "bedrooms", "location", "size", "condition">>
    ELSE <<>>

\* Message in state waiting_title.  sent = FALSE: the reply raised after the
\* title was stored, so the state tag is not written (the handler has no
\* except branch: nothing is answered).
product_title_received ==
    \E title \in TitleInputs, sent \in BOOLEAN :
        /\ fsmState = "waiting_title"
        /\ IF title < 3 \/ title > 200
           THEN /\ out' = "title_rejected"
                /\ UNCHANGED <<data, fsmState, kb>>
           ELSE /\ data' = [data EXCEPT !.title = title]
                /\ fsmState' = IF ~sent THEN fsmState
                               ELSE IF data.product_type = "custom_description"
                                    THEN "waiting_price" ELSE "waiting_description"
                /\ kb' = IF sent THEN [kb EXCEPT !.cancel = TRUE] ELSE kb
                /\ out' = IF sent THEN "title_saved" ELSE out
        /\ UNCHANGED <<cells, envVars, files, albumVars, hs, nphotos, sessions, products>>

\* Message in state waiting_description.
product_description_received ==
    \E description \in DescriptionInputs, sent \in BOOLEAN :
        /\ fsmState = "waiting_description"
        /\ IF description > 1000
           THEN /\ out' = "description_rejected"
                /\ UNCHANGED <<data, fsmState, kb>>
           ELSE /\ data' = [data EXCEPT !.description = description]
                /\ fsmState' = IF ~sent THEN fsmState
                               ELSE IF data.product_type = "custom_description"
                                    THEN "waiting_title" ELSE "waiting_price"
                /\ kb' = IF sent THEN [kb EXCEPT !.cancel = TRUE] ELSE kb
                /\ out' = IF sent THEN "description_saved" ELSE out
        /\ UNCHANGED <<cells, envVars, files, albumVars, hs, nphotos, sessions, products>>

\* Fields a preview reads with data[...]; a missing one raises KeyError.
PreviewReady(d, custom_preview) ==
    /\ d.photo_path # NoPath
    /\ IF custom_preview \/ d.product_type = "custom_description"
       THEN d.description # -1
       ELSE d.title # -1 /\ d.price # -1

\* show_custom_description_preview / show_product_preview on draft d: the
\* preview with the Create button is sent and the state tag set to
\* confirming, unless a field is missing or a send raises.
show_preview(d, custom_preview, sent) ==
    IF PreviewReady(d, custom_preview) /\ sent
    THEN /\ fsmState' = "confirming"
         /\ kb' = [kb EXCEPT !.cancel = TRUE, !.confirm = @ + 1]
         /\ out' = "preview"
    ELSE /\ out' = "error_creating_preview"
         /\ UNCHANGED <<fsmState, kb>>

\* show_category_fields(message, state, category) on draft d.
show_category_fields(d, sent) ==
    IF get_category_fields(d.category) = <<>>
    THEN /\ data' = d
         /\ show_preview(d, FALSE, sent)
    ELSE /\ data' = [d EXCEPT !.category_fields = d.category, !.current_field_index = 0,
                              !.field_values = <<>>]
         /\ fsmState' = IF sent THEN "waiting_category_fields" ELSE fsmState
         /\ kb' = IF sent THEN [kb EXCEPT !.cancel = TRUE] ELSE kb
         /\ out' = IF sent THEN "field_prompt" ELSE out

\* Message in state waiting_price.
product_price_received ==
    \E price \in PriceInputs, sent \in BOOLEAN :
        /\ fsmState = "waiting_price"
        /\ IF price = -1 \/ float_le(price, 0) \/ float_gt(price, 10000000)
           THEN /\ out' = "price_rejected"
                /\ UNCHANGED <<data, fsmState, kb>>
           ELSE LET d2 == [data EXCEPT !.price = price] IN
                IF d2.product_type = "custom_description"
                THEN /\ data' = d2
                     /\ show_preview(d2, TRUE, sent)
                ELSE IF d2.category # "absent"
                THEN show_category_fields(d2, sent)
                ELSE /\ data' = d2
                     /\ fsmState' = IF sent THEN "waiting_category" ELSE fsmState
                     /\ kb' = IF sent THEN [kb EXCEPT !.cancel = TRUE] ELSE kb
                     /\ out' = IF sent THEN "ask_category" ELSE out
        /\ UNCHANGED <<cells, envVars, files, albumVars, hs, nphotos, sessions, products>>

\* Faulty variant of store_field that replaces the dict by one holding the
\* current key only; C19_FieldLoop fails with it.
store_field_alone(field_values, current_field) == <<current_field>>

\* field_values[current_field] = field_value, with the dict held as the
\* sequence of its keys in insertion order: a new key goes last, a key already
\* present keeps its place.
store_field(field_values, current_field) ==
    IF current_field \in Range(field_values) THEN field_values
    ELSE Append(field_values, current_field)

\* Message in state waiting_category_fields: the value is stored under the
\* key at current_field_index; more fields -> the cursor advances, last
\* field -> preview.
category_field_received ==
    \E sent \in BOOLEAN :
        /\ fsmState = "waiting_category_fields"
        /\ IF data.category_fields = "absent" \/ data.current_field_index = -1
           THEN /\ out' = "error_processing_field"
                /\ UNCHANGED <<data, fsmState, kb>>
           ELSE LET field_names == get_category_fields(data.category_fields)
                    current_field == field_names[data.current_field_index + 1]
                    field_values == store_field(data.field_values, current_field)
                    next_index == data.current_field_index + 1
                IN IF next_index < Len(field_names)
                   THEN /\ data' = [data EXCEPT !.field_values = field_values,
                                                !.current_field_index = next_index]
                        /\ kb' = IF sent THEN [kb EXCEPT !.cancel = TRUE] ELSE kb
                        /\ out' = IF sent THEN "field_prompt" ELSE "error_processing_field"
                        /\ UNCHANGED fsmState
                   ELSE /\ data' = [data EXCEPT !.field_values = field_values]
                        /\ show_preview(data', FALSE, sent)
        /\ UNCHANGED <<cells, envVars, files, albumVars, hs, nphotos, sessions, products>>

\* ----------------------------------------------------------------- commit
\* Faulty variant of CommitReady in which every field is read with
\* data.get(), so nothing raises; C6_IncompleteDraftNotCommitted fails with it.
CommitReadyAlways(d) == TRUE

\* Fields handle_confirm_product reads with data[...] before it creates the
\* Product; a missing one raises KeyError into the except branch.
CommitReady(d) ==
    /\ d.photo_path # NoPath
    /\ d.title # -1
    /\ d.price # -1
    /\ d.product_type = "custom_description" => d.description # -1

\* Faulty variant of Without that leaves the main image in the gallery;
\* C15_GalleryIsNonMain fails with it.
WithoutNothing(images, k) == images

\* Non-main images, in order; none when all_images or main_image_index is unset.
RECURSIVE Without(_, _)
Without(images, k) ==
    IF images = <<>> THEN <<>>
    ELSE IF k = 0 THEN Tail(images)
    ELSE <<Head(images)>> \o Without(Tail(images), k - 1)

gallery_paths(d) ==
    IF d.all_images # <<>> /\ d.main_image_index # -1
    THEN Without(d.all_images, d.main_image_index)
    ELSE <<>>

\* The Product create_custom_description_product / create_standard_product
\* is called to persist for draft d; gallery holds category_fields["_gallery_images"].
ProductOf(d) ==
    LET original == IF d.original_photo_path # NoPath THEN d.original_photo_path ELSE d.photo_path
    IN IF d.product_type = "custom_description"
       THEN [product_type |-> "custom_description", title |-> d.title,
             description |-> d.description, price |-> d.price, category |-> "absent",
             field_values |-> <<>>, gallery |-> gallery_paths(d),
             image_path |-> d.photo_path, original_image_path |-> original]
       ELSE [product_type |-> "standard", title |-> d.title,
             description |-> d.description, price |-> d.price, category |-> d.category,
             field_values |-> d.field_values, gallery |-> gallery_paths(d),
             image_path |-> d.photo_path, original_image_path |-> original]

Confirming == {s \in Slots : hs[s].kind = "confirm"}

\* Callback confirm_product (no state filter), up to the suspension in
\* create_*_product.
handle_confirm_product_begin ==
    /\ kb.confirm > 0
    /\ IF ~CommitReady(data)
       THEN /\ out' = "error_creating_product"
            /\ UNCHANGED hs
       ELSE /\ InFlight # Slots
            /\ Len(products) + Cardinality(Confirming) < MaxProducts
            /\ hs' = [hs EXCEPT ![FreeSlot] = [Idle EXCEPT !.kind = "confirm", !.pc = "saving",
                                                          !.prod = ProductOf(data)]]
            /\ UNCHANGED out
    /\ UNCHANGED <<fsmState, data, cells, envVars, files, albumVars, nphotos, sessions, kb, products>>

\* The same handler in a run that starts at a preview, with room for the
\* Products of two commits.
handle_confirm_product_tapped ==
    /\ kb.confirm > 0
    /\ IF ~CommitReady(data)
       THEN /\ out' = "error_creating_product"
            /\ UNCHANGED hs
       ELSE /\ InFlight # Slots
            /\ Len(products) + Cardinality(Confirming) < MaxPreviewProducts
            /\ hs' = [hs EXCEPT ![FreeSlot] = [Idle EXCEPT !.kind = "confirm", !.pc = "saving",
                                                          !.prod = ProductOf(data)]]
            /\ UNCHANGED out
    /\ UNCHANGED <<fsmState, data, cells, envVars, files, albumVars, nphotos, sessions, kb, products>>

\* product.save() succeeded in the worker thread.
handle_confirm_product_save(s) ==
    /\ hs[s].kind = "confirm" /\ hs[s].pc = "saving"
    /\ products' = Append(products, hs[s].prod)
    /\ hs' = [hs EXCEPT ![s].pc = "saved"]
    /\ UNCHANGED <<fsmState, data, cells, envVars, files, albumVars, nphotos, sessions, kb, out>>

\* Faulty variant of handle_confirm_product_fail that clears the draft on
\* the way out; C7_CommitOutcome fails with it.
handle_confirm_product_fail_clearing(s) ==
    /\ hs[s].kind = "confirm" /\ hs[s].pc = "saving"
    /\ hs' = [hs EXCEPT ![s] = Idle]
    /\ fsmState' = "none"
    /\ data' = EmptyData
    /\ cells' = Collect(cells, EmptyData, hs')
    /\ out' = "error_creating_product"
    /\ UNCHANGED <<envVars, files, albumVars, nphotos, sessions, kb, products>>

\* The storage layer raised: the except branch answers with an error.
handle_confirm_product_fail(s) ==
    /\ hs[s].kind = "confirm" /\ hs[s].pc = "saving"
    /\ hs' = [hs EXCEPT ![s] = Idle]
    /\ out' = "error_creating_product"
    /\ UNCHANGED <<fsmState, data, cells, envVars, files, albumVars, nphotos, sessions, kb, products>>

\* The handler resumes with the Product: state.clear(), then the preview is
\* edited into the success notice (sent = FALSE: the edit raised).
handle_confirm_product_clear(s) ==
    \E sent \in BOOLEAN :
        /\ hs[s].kind = "confirm" /\ hs[s].pc = "saved"
        /\ fsmState' = "none"
        /\ data' = EmptyData
        /\ hs' = [hs EXCEPT ![s] = Idle]
        /\ cells' = Collect(cells, EmptyData, hs')
        /\ kb' = IF sent /\ kb.confirm > 0 THEN [kb EXCEPT !.confirm = @ - 1] ELSE kb
        /\ out' = IF sent THEN "created" ELSE "error_creating_product"
        /\ UNCHANGED <<envVars, files, albumVars, nphotos, sessions, products>>

Next ==
    \/ cmd_add_product
    \/ handle_standard_product
    \/ handle_custom_description
    \/ handle_category_selection
    \/ product_photo_received_begin
    \/ \E s \in Slots : product_photo_received_fail(s)
    \/ \E s \in Slots : product_photo_received_store(s)
    \/ \E g \in Groups : process_album_later(g)
    \/ handle_cancel_fsm
    \/ handle_photos_done_begin
    \/ \E s \in Slots : process_multiple_photos_stamp(s)
    \/ \E s \in Slots : process_multiple_photos_finish(s)
    \/ \E s \in Slots : process_multiple_photos_fail(s)
    \/ handle_main_image_selection
    \/ product_title_received
    \/ product_description_received
    \/ product_price_received
    \/ category_field_received
    \/ handle_confirm_product_begin
    \/ \E s \in Slots : handle_confirm_product_save(s)
    \/ \E s \in Slots : handle_confirm_product_fail(s)
    \/ \E s \in Slots : handle_confirm_product_clear(s)

Spec == Init /\ [][Next]_vars

\* ------------------------------------------------- a run at the photo cap
\* The photos of a draft that is one short of "max 8 photos total",
\* numbered after the photo messages of the run.
Preloaded == [i \in 1..(PhotoCap - 1) |-> MaxPhotos + i]

\* A run that starts where /addproduct, the custom type and PhotoCap - 1
\* standalone photos have left the seller: collecting photos, the prompt
\* with the Done button in the chat.
InitCap ==
    /\ fsmState = "waiting_photo"
    /\ data = [EmptyData EXCEPT !.product_type = "custom_description", !.collected_photos = 1]
    /\ cells = [c \in Cells |-> IF c = 1 THEN Preloaded ELSE <<>>]
    /\ deepCopy \in BOOLEAN
    /\ unreadable = {}
    /\ files = Range(Originals(Preloaded))
    /\ album_buffer = [g \in Groups |-> <<>>]
    /\ album_tasks_scheduled = {}
    /\ tasks = [g \in Groups |-> 0]
    /\ hs = [s \in Slots |-> Idle]
    /\ nphotos = 0
    /\ sessions = 0
    /\ kb = [NoKeyboards EXCEPT !.done = TRUE, !.cancel = TRUE]
    /\ products = <<>>
    /\ out = "additional_photo"
    /\ merges = [g \in Groups |-> 0]
    /\ cancelled_albums = {}
    /\ EmptyStore

\* The photo-collecting phase and its end: photo arrivals, album timers,
\* Cancel and Done.
NextCap ==
    \/ product_photo_received_begin
    \/ \E s \in Slots : product_photo_received_fail(s)
    \/ \E s \in Slots : product_photo_received_store(s)
    \/ \E g \in Groups : process_album_later(g)
    \/ handle_cancel_fsm
    \/ handle_photos_done_begin
    \/ \E s \in Slots : process_multiple_photos_stamp(s)
    \/ \E s \in Slots : process_multiple_photos_finish(s)
    \/ \E s \in Slots : process_multiple_photos_fail(s)

SpecCap == InitCap /\ [][NextCap]_vars

\* ------------------------------------- a draft followed to its commit
\* The photos of a draft that holds two photos, numbered after the photo
\* messages of the run.
TwoPhotos == <<MaxPhotos + 1, MaxPhotos + 2>>

\* A run that starts where /addproduct, the custom type and two standalone
\* photos have left the seller: collecting photos, the prompt with the Done
\* button in the chat.
InitDraft ==
    /\ fsmState = "waiting_photo"
    /\ data = [EmptyData EXCEPT !.product_type = "custom_description", !.collected_photos = 1]
    /\ cells = [c \in Cells |-> IF c = 1 THEN TwoPhotos ELSE <<>>]
    /\ deepCopy \in BOOLEAN
    /\ unreadable = {}
    /\ files = Range(Originals(TwoPhotos))
    /\ album_buffer = [g \in Groups |-> <<>>]
    /\ album_tasks_scheduled = {}
    /\ tasks = [g \in Groups |-> 0]
    /\ hs = [s \in Slots |-> Idle]
    /\ nphotos = 0
    /\ sessions = 0
    /\ kb = [NoKeyboards EXCEPT !.done = TRUE, !.cancel = TRUE]
    /\ products = <<>>
    /\ out = "additional_photo"
    /\ merges = [g \in Groups |-> 0]
    /\ cancelled_albums = {}
    /\ EmptyStore

\* The custom_description intake where every Telegram and storage call
\* succeeds and Cancel is not tapped: photo arrivals, album timer, Done,
\* main-image selection, the text fields and the commit.
NextDraft ==
    \/ product_photo_received_begin
    \/ \E s \in Slots : product_photo_received_store(s)
    \/ \E g \in Groups : process_album_later(g)
    \/ handle_photos_done_begin
    \/ \E s \in Slots : process_multiple_photos_stamp(s)
    \/ \E s \in Slots : process_multiple_photos_finish(s)
    \/ handle_main_image_selection
    \/ product_title_received
    \/ product_description_received
    \/ product_price_received
    \/ handle_confirm_product_begin
    \/ \E s \in Slots : handle_confirm_product_save(s)
    \/ \E s \in Slots : handle_confirm_product_clear(s)

SpecDraft == InitDraft /\ [][NextDraft]_vars

\* ------------------------------------- a run after a cancelled intake
\* A run that starts where an intake cancelled while collecting photos has
\* left the seller: no state, no data, and in the chat the prompt that
\* carries the Done and Cancel buttons (Cancel was tapped on another message).
InitAfterCancel ==
    /\ fsmState = "none"
    /\ data = EmptyData
    /\ cells = [c \in Cells |-> <<>>]
    /\ deepCopy \in BOOLEAN
    /\ unreadable = {}
    /\ files = {OrigPath(MaxPhotos + 1)}
    /\ album_buffer = [g \in Groups |-> <<>>]
    /\ album_tasks_scheduled = {}
    /\ tasks = [g \in Groups |-> 0]
    /\ hs = [s \in Slots |-> Idle]
    /\ nphotos = 0
    /\ sessions = 0
    /\ kb = [NoKeyboards EXCEPT !.done = TRUE, !.cancel = TRUE]
    /\ products = <<>>
    /\ out = "cancelled"
    /\ merges = [g \in Groups |-> 0]
    /\ cancelled_albums = {}
    /\ EmptyStore

SpecAfterCancel == InitAfterCancel /\ [][Next]_vars

\* ------------------------------------- a run that starts at the preview
\* A run that starts where the seller sent /addproduct twice, chose the
\* custom type on the second keyboard, sent two photos, tapped Done, chose
\* the first photo and sent description, title and price: the preview with
\* the Create button is in the chat, and so is the type keyboard of the
\* first /addproduct.
InitPreview ==
    /\ fsmState = "confirming"
    /\ data = [EmptyData EXCEPT !.product_type = "custom_description", !.collected_photos = 1,
                                !.all_images = <<StampedPath(MaxPhotos + 1),
                                                 StampedPath(MaxPhotos + 2)>>,
                                !.all_original_images = Originals(TwoPhotos),
                                !.main_image_index = 0,
                                !.photo_path = StampedPath(MaxPhotos + 1),
                                !.original_photo_path = OrigPath(MaxPhotos + 1),
                                !.description = 1, !.title = 3, !.price = 2500]
    /\ cells = [c \in Cells |-> IF c = 1 THEN TwoPhotos ELSE <<>>]
    /\ deepCopy \in BOOLEAN
    /\ unreadable = {}
    /\ files = Range(Originals(TwoPhotos))
               \cup {StampedPath(MaxPhotos + 1), StampedPath(MaxPhotos + 2)}
    /\ album_buffer = [g \in Groups |-> <<>>]
    /\ album_tasks_scheduled = {}
    /\ tasks = [g \in Groups |-> 0]
    /\ hs = [s \in Slots |-> Idle]
    /\ nphotos = 0
    /\ sessions = 0
    /\ kb = [type |-> 1, category |-> 0, done |-> TRUE, select |-> 2, confirm |-> 1,
             cancel |-> TRUE]
    /\ products = <<>>
    /\ out = "preview"
    /\ merges = [g \in Groups |-> 0]
    /\ cancelled_albums = {}
    /\ EmptyStore

\* The handlers that take their event in any state: /addproduct, the type
\* and category buttons, Cancel and Create, with room for the Products of
\* two commits.
NextPreview ==
    \/ cmd_add_product
    \/ handle_standard_product
    \/ handle_custom_description
    \/ handle_category_selection
    \/ handle_cancel_fsm
    \/ handle_confirm_product_tapped
    \/ \E s \in Slots : handle_confirm_product_save(s)
    \/ \E s \in Slots : handle_confirm_product_fail(s)
    \/ \E s \in Slots : handle_confirm_product_clear(s)

SpecPreview == InitPreview /\ [][NextPreview]_vars

\* ------------------------------------------------------ scheduled posting
\* hour, minute = map(int, post_time_str.split(':')), 9:00 where that fails.
post_hour(post_time_str) ==
    IF post_time_str = "09:00" THEN 9
    ELSE IF post_time_str = "12:00" THEN 12
    ELSE IF post_time_str = "15:00" THEN 15
    ELSE IF post_time_str = "18:00" THEN 18
    ELSE 9

\* The computation without the step to tomorrow.
calculate_next_post_time_today(interval_days, post_time_str, now) ==
    (now \div DayHours) * DayHours + post_hour(post_time_str) + interval_days * DayHours

\* calculate_next_post_time read at the hour now: today at the posting hour,
\* tomorrow if that is not after now, then interval_days days later.
calculate_next_post_time(interval_days, post_time_str, now) ==
    LET next_post == (now \div DayHours) * DayHours + post_hour(post_time_str)
        from_tomorrow == IF next_post <= now THEN next_post + DayHours ELSE next_post
    IN from_tomorrow + interval_days * DayHours

Exists(i) == schedules[i].product > 0

\* db.update_schedule_post_time: nothing where the row is gone.
update_schedule_post_time(schedule_id, last_posted, next_post) ==
    IF Exists(schedule_id)
    THEN [schedules EXCEPT ![schedule_id].last_posted_at = last_posted,
                           ![schedule_id].next_post_at = next_post]
    ELSE schedules

\* schedule_time_selected up to db.create_schedule: the next post time is
\* computed, then the row is inserted without it.
create_schedule(product_id, interval_days, post_time) ==
    LET free == {i \in ScheduleIds : schedules[i] = NoSchedule}
        id == CHOOSE i \in free : \A j \in free : i <= j
    IN /\ creating = NoCreation
       /\ catalog[product_id] # "missing"
       /\ free # {}
       /\ creating' = [id |-> id,
                       next_post |-> calculate_next_post_time(interval_days, post_time, clock)]
       /\ schedules' = [schedules EXCEPT ![id] =
                          [product |-> product_id, interval_days |-> interval_days,
                           post_time |-> post_time, is_active |-> TRUE,
                           next_post_at |-> None, last_posted_at |-> None]]
       /\ UNCHANGED <<intakeVars, viewVars, engageVars, clock, catalog, sweep, outcome, channel, channel_posts>>

schedule_time_selected_create ==
    \E product_id \in ProductIds, interval_days \in TappedIntervals, post_time \in TappedTimes :
      create_schedule(product_id, interval_days, post_time)

\* The same with any of the buttons.
schedule_time_selected_any ==
    \E product_id \in ProductIds, interval_days \in IntervalButtons, post_time \in TimeButtons :
      create_schedule(product_id, interval_days, post_time)

\* schedule_time_selected from db.update_schedule_post_time on.
schedule_time_selected_update ==
    /\ creating # NoCreation
    /\ schedules' = update_schedule_post_time(creating.id, None, creating.next_post)
    /\ creating' = NoCreation
    /\ UNCHANGED <<intakeVars, viewVars, engageVars, clock, catalog, sweep, outcome, channel, channel_posts>>

\* Time passes.
advance_clock ==
    /\ clock + HourStep <= MaxClock
    /\ clock' = clock + HourStep
    /\ UNCHANGED <<intakeVars, viewVars, engageVars, catalog, schedules, creating, sweep, outcome, channel,
                   channel_posts>>

\* The query without its filter.
get_active_schedules_unfiltered == {i \in ScheduleIds : Exists(i)}

\* PostSchedule.objects.filter(is_active=True)
get_active_schedules == {i \in ScheduleIds : Exists(i) /\ schedules[i].is_active}

\* .order_by('next_post_at'): rows with a NULL, and equal times, in any order.
ordered_by_next_post_at(ids) ==
    {q \in [1..Cardinality(ids) -> ids] :
        /\ \A i, j \in 1..Cardinality(ids) : i # j => q[i] # q[j]
        /\ \A i, j \in 1..Cardinality(ids) :
             (i < j /\ schedules[q[i]].next_post_at # None /\ schedules[q[j]].next_post_at # None)
                => schedules[q[i]].next_post_at <= schedules[q[j]].next_post_at}

\* check_and_post_scheduled up to the loop: the time of the sweep and the
\* rows as they are read.
check_and_post_scheduled_begin ==
    /\ ~sweep.running
    /\ \E q \in ordered_by_next_post_at(get_active_schedules) :
         sweep' = [running |-> TRUE, now |-> clock, done |-> <<>>,
                   queue |-> [k \in 1..Len(q) |-> [id |-> q[k], row |-> schedules[q[k]]]]]
    /\ UNCHANGED <<intakeVars, viewVars, engageVars, clock, catalog, schedules, creating, outcome, channel,
                   channel_posts>>

\* if schedule.next_post_at and schedule.next_post_at <= now
is_due(row, now) == row.next_post_at # None /\ row.next_post_at <= now

Failures == {"render_error", "dispatch_error"}

\* The sweep abandoned at the first failure.
after_failure_abandon(queue) == <<>>

\* except Exception inside the loop: on to the next schedule.
after_failure(queue) == Tail(queue)

\* The schedule advanced whether or not the post was sent.
advance_after_post_or_not(id, schedule, sent) ==
    update_schedule_post_time(id, sweep.now,
        calculate_next_post_time(schedule.interval_days, schedule.post_time, clock))

\* calculate_next_post_time and db.update_schedule_post_time after
\* bot.send_photo: not reached when the send or the rendering raised.
advance_after_post(id, schedule, sent) ==
    IF sent
    THEN update_schedule_post_time(id, sweep.now,
             calculate_next_post_time(schedule.interval_days, schedule.post_time, clock))
    ELSE schedules

\* One turn of the loop of check_and_post_scheduled.
check_and_post_scheduled_step ==
    /\ sweep.running
    /\ sweep.queue # <<>>
    /\ LET schedule == Head(sweep.queue).row
           id == Head(sweep.queue).id
       IN IF ~is_due(schedule, sweep.now)
          THEN /\ outcome' = [outcome EXCEPT ![id] = "not_due"]
               /\ sweep' = [sweep EXCEPT !.queue = Tail(sweep.queue), !.done = Append(@, id)]
               /\ UNCHANGED <<schedules, channel>>
          ELSE IF catalog[schedule.product] # "active"
          THEN /\ outcome' = [outcome EXCEPT ![id] = "skipped"]
               /\ sweep' = [sweep EXCEPT !.queue = Tail(sweep.queue), !.done = Append(@, id)]
               /\ UNCHANGED <<schedules, channel>>
          ELSE \E result \in {"sent"} \cup Failures :
                 /\ result = "sent" => Len(channel) < MaxMessages
                 /\ channel' = IF result = "sent"
                               THEN Append(channel, [product |-> schedule.product,
                                                     by |-> "scheduler", sold |-> FALSE])
                               ELSE channel
                 /\ schedules' = advance_after_post(id, schedule, result = "sent")
                 /\ outcome' = [outcome EXCEPT ![id] = result]
                 /\ sweep' = [sweep EXCEPT !.queue = IF result = "sent" THEN Tail(sweep.queue)
                                                     ELSE after_failure(sweep.queue),
                                           !.done = Append(@, id)]
    /\ UNCHANGED <<intakeVars, viewVars, engageVars, clock, catalog, creating, channel_posts>>

\* The loop of check_and_post_scheduled is over.
check_and_post_scheduled_end ==
    /\ sweep.running
    /\ sweep.queue = <<>>
    /\ sweep' = [sweep EXCEPT !.running = FALSE]
    /\ UNCHANGED <<intakeVars, viewVars, engageVars, clock, catalog, schedules, creating, outcome, channel,
                   channel_posts>>

\* handle_post_to_channel: the seller posts a product and the message is
\* recorded.
handle_post_to_channel ==
    \E product_id \in ProductIds :
      /\ catalog[product_id] # "missing"
      /\ Len(channel) < MaxMessages
      /\ channel' = Append(channel, [product |-> product_id, by |-> "seller", sold |-> FALSE])
      /\ channel_posts' = channel_posts \cup {Len(channel) + 1}
      /\ UNCHANGED <<intakeVars, viewVars, engageVars, clock, catalog, schedules, creating, sweep, outcome>>

\* db.get_channel_posts
get_channel_posts(product_id) == {m \in channel_posts : channel[m].product = product_id}

\* handle_mark_sold: the caption of every recorded post of the product is
\* edited.
handle_mark_sold ==
    \E product_id \in ProductIds :
      /\ catalog[product_id] # "missing"
      /\ get_channel_posts(product_id) # {}
      /\ channel' = [m \in 1..Len(channel) |->
                       IF m \in get_channel_posts(product_id)
                       THEN [channel[m] EXCEPT !.sold = TRUE] ELSE channel[m]]
      /\ UNCHANGED <<intakeVars, viewVars, engageVars, clock, catalog, schedules, creating, sweep, outcome,
                     channel_posts>>

\* The Django admin changes is_active of a Product or of a PostSchedule.
admin_change_product ==
    \E product_id \in ProductIds :
      /\ catalog[product_id] # "missing"
      /\ catalog' = [catalog EXCEPT ![product_id] =
                        IF @ = "active" THEN "inactive" ELSE "active"]
      /\ UNCHANGED <<intakeVars, viewVars, engageVars, clock, schedules, creating, sweep, outcome, channel,
                     channel_posts>>

admin_change_schedule ==
    \E i \in ScheduleIds :
      /\ Exists(i)
      /\ schedules' = [schedules EXCEPT ![i].is_active = ~@]
      /\ UNCHANGED <<intakeVars, viewVars, engageVars, clock, catalog, creating, sweep, outcome, channel,
                     channel_posts>>

\* The Django admin deletes a Product; its schedules and its ChannelPost rows
\* go with it (on_delete=CASCADE).
admin_delete_product ==
    \E product_id \in ProductIds :
      /\ catalog[product_id] # "missing"
      /\ catalog' = [catalog EXCEPT ![product_id] = "missing"]
      /\ schedules' = [i \in ScheduleIds |->
                         IF schedules[i].product = product_id THEN DeletedSchedule
                         ELSE schedules[i]]
      /\ channel_posts' = channel_posts \ get_channel_posts(product_id)
      /\ UNCHANGED <<intakeVars, viewVars, engageVars, clock, creating, sweep, outcome, channel>>

\* A run that starts with the seller's products in the database, no
\* schedule, an empty channel and no intake under way.
NoIntake ==
    /\ fsmState = "none"
    /\ data = EmptyData
    /\ cells = [c \in Cells |-> <<>>]
    /\ deepCopy = FALSE
    /\ unreadable = {}
    /\ files = {}
    /\ album_buffer = [g \in Groups |-> <<>>]
    /\ album_tasks_scheduled = {}
    /\ tasks = [g \in Groups |-> 0]
    /\ hs = [s \in Slots |-> Idle]
    /\ nphotos = 0
    /\ sessions = 0
    /\ kb = NoKeyboards
    /\ products = <<>>
    /\ out = "none"
    /\ merges = [g \in Groups |-> 0]
    /\ cancelled_albums = {}

\* The seller's products in the database, no schedule, an empty channel.
NoSchedules ==
    /\ catalog = [p \in ProductIds |-> "active"]
    /\ schedules = [i \in ScheduleIds |-> NoSchedule]
    /\ creating = NoCreation
    /\ sweep = NoSweep
    /\ outcome = [i \in ScheduleIds |-> "none"]
    /\ channel = <<>>
    /\ channel_posts = {}

InitSched ==
    /\ NoIntake
    /\ clock = 0
    /\ NoSchedules
    /\ Untouched

NextSched ==
    \/ schedule_time_selected_create
    \/ schedule_time_selected_update
    \/ advance_clock
    \/ check_and_post_scheduled_begin
    \/ check_and_post_scheduled_step
    \/ check_and_post_scheduled_end
    \/ handle_post_to_channel
    \/ handle_mark_sold
    \/ admin_change_product
    \/ admin_change_schedule
    \/ admin_delete_product

SpecSched == InitSched /\ [][NextSched]_vars

\* ------------------------------------------------- making a schedule
\* A run that starts at any hour of two days and in which schedules are
\* made with any interval and time button.
InitNextPost ==
    /\ NoIntake
    /\ clock \in 0..MaxStartHour
    /\ NoSchedules
    /\ Untouched

NextNextPost ==
    \/ schedule_time_selected_any
    \/ schedule_time_selected_update

SpecNextPost == InitNextPost /\ [][NextNextPost]_vars


\* ------------------------------------------- likes, saves and orders
Max(a, b) == IF a >= b THEN a ELSE b

\* The toggle with a counter that only goes up.
toggle_like_up(rows, product, user_id) ==
    [rows |-> [rows EXCEPT ![user_id] = [@ EXCEPT !.exists = TRUE, !.liked = ~@]],
     product |-> [product EXCEPT !.likes_count = @ + 1]]

\* db.toggle_like: the row is made if need be, its flag flipped, and the
\* counter raised, or lowered but not below 0; one transaction.
toggle_like(rows, product, user_id) ==
    LET liked == ~rows[user_id].liked
    IN [rows |-> [rows EXCEPT ![user_id] = [@ EXCEPT !.exists = TRUE, !.liked = liked]],
        product |-> [product EXCEPT !.likes_count =
                        IF liked THEN @ + 1 ELSE Max(0, @ - 1)]]

\* db.toggle_save
toggle_save(rows, product, user_id) ==
    LET saved == ~rows[user_id].saved
    IN [rows |-> [rows EXCEPT ![user_id] = [@ EXCEPT !.exists = TRUE, !.saved = saved]],
        product |-> [product EXCEPT !.saves_count =
                        IF saved THEN @ + 1 ELSE Max(0, @ - 1)]]

\* The record of a tap: the second tap in a row of one user on one button
\* keeps what the first tap found.
Tapped(user_id, button, flag, count) ==
    IF last_tap.user = user_id /\ last_tap.button = button /\ last_tap.times = 1
    THEN [last_tap EXCEPT !.times = 2]
    ELSE [user |-> user_id, button |-> button, times |-> 1, flag |-> flag, count |-> count]

handle_like ==
    \E user_id \in Buyers :
      LET after == toggle_like(engagement, counts, user_id)
      IN /\ engagement' = after.rows
         /\ counts' = after.product
         /\ last_tap' = Tapped(user_id, "like", engagement[user_id].liked, counts.likes_count)
         /\ UNCHANGED <<intakeVars, viewVars, clock, catalog, schedules, creating, sweep, outcome,
                        channel, channel_posts, orders, ordering, rendered>>

handle_save ==
    \E user_id \in Buyers :
      LET after == toggle_save(engagement, counts, user_id)
      IN /\ engagement' = after.rows
         /\ counts' = after.product
         /\ last_tap' = Tapped(user_id, "save", engagement[user_id].saved, counts.saves_count)
         /\ UNCHANGED <<intakeVars, viewVars, clock, catalog, schedules, creating, sweep, outcome,
                        channel, channel_posts, orders, ordering, rendered>>

\* db.update_product_engagement(product_id, orders_count=1)
update_product_engagement(product, value) == [product EXCEPT !.orders_count = @ + value]

\* db.create_order: the Order row and orders_count += 1, one transaction.
create_order(product) == [product EXCEPT !.orders_count = @ + 1]

\* handle_order_start up to db.create_order.
handle_order_start_create ==
    \E user_id \in Buyers :
      /\ orders < MaxOrders
      /\ orders' = orders + 1
      /\ counts' = create_order(counts)
      /\ ordering' = ordering + 1
      /\ last_tap' = Tapped(user_id, "order", FALSE, counts.orders_count)
      /\ UNCHANGED <<intakeVars, viewVars, clock, catalog, schedules, creating, sweep, outcome,
                     channel, channel_posts, engagement, rendered>>

\* handle_order_start after the buyer and the seller were told.
handle_order_start_count ==
    /\ ordering > 0
    /\ ordering' = ordering - 1
    /\ counts' = update_product_engagement(counts, 1)
    /\ UNCHANGED <<intakeVars, viewVars, clock, catalog, schedules, creating, sweep, outcome,
                   channel, channel_posts, engagement, orders, last_tap, rendered>>

\* A run that starts with an active Product shown with its buttons and
\* nobody having tapped them.
InitEngage == InitSched

NextEngage ==
    \/ handle_like
    \/ handle_save
    \/ handle_order_start_create
    \/ handle_order_start_count

SpecEngage == InitEngage /\ [][NextEngage]_vars

\* ------------------------------------------- toggles as transactions
\* db.toggle_like and db.toggle_save statement by statement, for updates
\* handled in different threads or processes (one webhook request each) on
\* a database with row locks and READ COMMITTED reads: what a transaction
\* writes is seen by the others at its COMMIT, and a row it has inserted or
\* updated is locked until then.

\* Users whose Engagement row an open transaction holds locked.
Locked == {txn[t].user : t \in {x \in Txns : txn[x].pc \in {"created", "written"}}}

\* with transaction.atomic(): Engagement.objects.get_or_create(...).  A row
\* that exists is read without a lock; a row that does not is inserted, which
\* waits while another transaction has the same row inserted but not
\* committed (unique_together).
toggle_get_or_create ==
    \E t \in Txns, user_id \in Buyers, button \in {"like", "save"} :
        /\ txn[t].pc = "idle"
        /\ \A x \in Txns : x < t => txn[x].pc # "idle"
        /\ counts.likes_count < MaxLikes
        /\ counts.saves_count < MaxLikes
        /\ engagement[user_id].exists \/ user_id \notin Locked
        /\ txn' = [txn EXCEPT ![t] =
                      [pc |-> IF engagement[user_id].exists THEN "read" ELSE "created",
                       user |-> user_id, button |-> button,
                       liked |-> engagement[user_id].liked,
                       saved |-> engagement[user_id].saved]]
        /\ UNCHANGED <<intakeVars, clock, catalog, schedules, creating, sweep, outcome,
                       channel, channel_posts, engagement, counts, orders, ordering,
                       last_tap, rendered, shown, dispatch>>

\* engagement.liked = not engagement.liked; engagement.save(): the UPDATE
\* of the row waits for the transaction that holds it locked.
toggle_engagement_save(t) ==
    /\ txn[t].pc \in {"read", "created"}
    /\ txn[t].pc = "read" => txn[t].user \notin Locked
    /\ txn' = [txn EXCEPT ![t].pc = "written"]
    /\ UNCHANGED <<intakeVars, clock, catalog, schedules, creating, sweep, outcome,
                   channel, channel_posts, engagement, counts, orders, ordering,
                   last_tap, rendered, shown, dispatch>>

\* Product.objects.select_for_update().get(...), the counter moved by one
\* after the flag just written, product.save() and COMMIT.  The row written
\* is the object as it was read with the one flag flipped.
toggle_commit(t) ==
    /\ txn[t].pc = "written"
    /\ LET user_id == txn[t].user
           as_read == [engagement EXCEPT ![user_id] =
                          [exists |-> TRUE, liked |-> txn[t].liked, saved |-> txn[t].saved]]
           after == IF txn[t].button = "like"
                    THEN toggle_like(as_read, counts, user_id)
                    ELSE toggle_save(as_read, counts, user_id)
       IN /\ engagement' = after.rows
          /\ counts' = after.product
    /\ txn' = [txn EXCEPT ![t] = NoTxn]
    /\ UNCHANGED <<intakeVars, clock, catalog, schedules, creating, sweep, outcome,
                   channel, channel_posts, orders, ordering, last_tap, rendered, shown,
                   dispatch>>

NextToggle ==
    \/ toggle_get_or_create
    \/ \E t \in Txns : toggle_engagement_save(t)
    \/ \E t \in Txns : toggle_commit(t)

SpecToggle == InitEngage /\ [][NextToggle]_vars

\* ------------------------------------------------------------ captions
\* The characters escape_markdown puts a backslash before (the backquote,
\* which a string of this module cannot hold, left out).
special_chars == {"_", "*", "[", "]", "~", ">", "#", "+", "=", "|", "{", "}", "!"}

RECURSIVE escape_chars(_)
escape_chars(text) ==
    IF text = <<>> THEN <<>>
    ELSE (IF Head(text) \in special_chars THEN <<"\\", Head(text)>> ELSE <<Head(text)>>)
         \o escape_chars(Tail(text))

\* escape_markdown: "" for None, else each special character behind a
\* backslash.
escape_markdown(text) == IF text = NoText THEN <<>> ELSE escape_chars(text)

\* Python's truth of an optional text.
Truthy(text) == text # NoText /\ text # <<>>

\* format_price(price), one piece of text without special characters.
format_price(price) == <<<<"Birr", price>>>>

\* The seller lines both formats end with.
seller_lines(seller_name, seller_phone) ==
    (IF Truthy(seller_name) THEN <<"[person] **">> \o escape_markdown(seller_name) \o <<"**NL">>
     ELSE <<>>)
    \o (IF Truthy(seller_phone) THEN <<"[phone] ">> \o escape_markdown(seller_phone) \o <<"NL">>
        ELSE <<>>)

RECURSIVE field_lines(_)
field_lines(category_fields) ==
    IF category_fields = <<>> THEN <<>>
    ELSE <<"[bullet] **", <<"label", Head(category_fields).field>>, "**: ">>
         \o escape_markdown(Head(category_fields).value) \o <<"NL">>
         \o field_lines(Tail(category_fields))

\* The custom_description format as it is for viewing.
custom_caption_viewed(title, description, price, seller_name, seller_phone, for_channel) ==
    (IF Truthy(title)
     THEN <<"[bag] **">> \o escape_markdown(title) \o <<"**NL", "[rule]NLNL">>
     ELSE <<>>)
    \o (IF price # None /\ price # 0
        THEN <<"[money] **">> \o escape_markdown(format_price(price)) \o <<"**NLNL">>
        ELSE <<>>)
    \o escape_markdown(description)
    \o (IF Truthy(seller_name) \/ Truthy(seller_phone)
        THEN <<"NLNL">> \o seller_lines(seller_name, seller_phone)
        ELSE <<>>)

\* The branch with for_channel ignored.
custom_caption_always_viewed(title, description, price, seller_name, seller_phone, for_channel) ==
    custom_caption_viewed(title, description, price, seller_name, seller_phone, FALSE)

\* format_product_caption, branch product_type == "custom_description"
custom_caption(title, description, price, seller_name, seller_phone, for_channel) ==
    IF for_channel
    THEN escape_markdown(description)
    ELSE custom_caption_viewed(title, description, price, seller_name, seller_phone, for_channel)

\* format_product_caption, standard format
standard_caption(title, description, price, category, seller_name, seller_phone, category_fields) ==
    <<"[bag] **">> \o escape_markdown(title) \o <<"**NL", "[rule]NLNL">>
    \o (IF Truthy(description) THEN escape_markdown(description) \o <<"NLNL">> ELSE <<>>)
    \o (IF category_fields # <<>> THEN field_lines(category_fields) \o <<"NL">> ELSE <<>>)
    \o (IF price # None /\ price # 0
        THEN <<"[money] **">> \o escape_markdown(format_price(price)) \o <<"**NL">>
        ELSE <<>>)
    \o (IF Truthy(category) THEN <<"[folder] ">> \o escape_markdown(category) \o <<"NL">>
        ELSE <<>>)
    \o (IF Truthy(seller_name) \/ Truthy(seller_phone)
        THEN <<"NL">> \o seller_lines(seller_name, seller_phone)
        ELSE <<>>)

\* What a call that raises AttributeError gives in place of a caption.
AttributeError == <<"AttributeError">>

\* A value of category_fields that is a Python list: the word "list" and
\* the paths it holds. A text never starts with that word.
IsList(value) == value # <<>> /\ Head(value) = "list"

\* The standard format runs escape_markdown(value) on every value of
\* category_fields, and text.replace does not exist on a list.
format_product_caption(title, description, price, category, seller_name, seller_phone, product_type, category_fields, for_channel) ==
    IF product_type = "custom_description"
    THEN custom_caption(title, description, price, seller_name, seller_phone, for_channel)
    ELSE IF \E i \in 1..Len(category_fields) : IsList(category_fields[i].value)
    THEN AttributeError
    ELSE standard_caption(title, description, price, category, seller_name, seller_phone,
                          category_fields)

\* The values a caption is rendered from.
TextChars == {"d", "_", "*"}
Texts == UNION {[1..n -> TextChars] : n \in 0..MaxText}
Descriptions == {NoText} \cup Texts
Titles == {NoText, <<"t", "_">>}
Prices == {None, 0, 2500}
CategoryTexts == {NoText, <<"p", "h">>}
SellerNames == {NoText, <<"s", "!">>}
SellerPhones == {NoText, <<"+", "2">>}
FieldSets == {<<>>, <<[field |-> "storage", value |-> <<"6", "4">>]>>}

\* The values format_product_caption is about to be called with.
Arguments ==
    {[product_type |-> product_type, for_channel |-> for_channel, title |-> title,
      description |-> description, price |-> price, category |-> category,
      seller_name |-> seller_name, seller_phone |-> seller_phone,
      category_fields |-> category_fields, caption |-> <<"not rendered">>] :
        product_type \in {"standard", "custom_description"}, for_channel \in BOOLEAN,
        title \in Titles, description \in Descriptions, price \in Prices,
        category \in CategoryTexts, seller_name \in SellerNames,
        seller_phone \in SellerPhones, category_fields \in FieldSets}

\* A caption is rendered: format_product_caption is called.
render_caption ==
    /\ rendered.caption = <<"not rendered">>
    /\ rendered' = [rendered EXCEPT !.caption =
                       format_product_caption(rendered.title, rendered.description,
                           rendered.price, rendered.category, rendered.seller_name,
                           rendered.seller_phone, rendered.product_type,
                           rendered.category_fields, rendered.for_channel)]
    /\ UNCHANGED <<intakeVars, viewVars, clock, catalog, schedules, creating, sweep, outcome,
                   channel, channel_posts, engagement, counts, orders, ordering, last_tap>>

\* A run that starts where a handler has the values of a product and a
\* seller at hand and is about to render the caption.
InitCaption ==
    /\ NoIntake
    /\ clock = 0
    /\ NoSchedules
    /\ NoTaps
    /\ NotShown
    /\ rendered \in Arguments

NextCaption == render_caption

SpecCaption == InitCaption /\ [][NextCaption]_vars

\* --------------------------------------------------- rendering handlers
\* category_fields["_gallery_images"] as handle_confirm_product and
\* create_custom_description_product store it for a draft of two photos.
gallery_images == [field |-> "_gallery_images", value |-> <<"list", "wm_2">>]

\* category_fields of a committed standard Product: the field values, and
\* the gallery where the draft had more than one photo.
StoredFieldSets == FieldSets \cup {fields \o <<gallery_images>> : fields \in FieldSets}

\* Committed Products with the seller who owns them. A custom_description
\* product has no category and no field values; the seller's display name
\* falls back to "Your Store", so it is never empty.
Committed ==
    {[product_type |-> "standard", for_channel |-> FALSE, title |-> title,
      description |-> description, price |-> price, category |-> category,
      seller_name |-> <<"s", "!">>, seller_phone |-> seller_phone,
      category_fields |-> category_fields, caption |-> <<>>] :
        title \in Titles, description \in Descriptions, price \in Prices,
        category \in CategoryTexts, seller_phone \in SellerPhones,
        category_fields \in StoredFieldSets}
    \cup
    {[product_type |-> "custom_description", for_channel |-> FALSE, title |-> title,
      description |-> description, price |-> price, category |-> NoText,
      seller_name |-> <<"s", "!">>, seller_phone |-> seller_phone,
      category_fields |-> category_fields, caption |-> <<>>] :
        title \in Titles, description \in Descriptions, price \in Prices,
        seller_phone \in SellerPhones, category_fields \in {<<>>, <<gallery_images>>}}

\* The record of one call of format_product_caption.
Call(title, description, price, category, seller_name, seller_phone, product_type, category_fields, for_channel) ==
    [product_type |-> product_type, for_channel |-> for_channel, title |-> title,
     description |-> description, price |-> price, category |-> category,
     seller_name |-> seller_name, seller_phone |-> seller_phone,
     category_fields |-> category_fields,
     caption |-> format_product_caption(title, description, price, category, seller_name,
                     seller_phone, product_type, category_fields, for_channel)]

\* handle_post_to_channel: the caption of the post the seller asks for
\* after the commit, with the seller, the type, the fields and for_channel=True.
post_to_channel_caption ==
    /\ shown # NoRender
    /\ rendered' = Call(shown.title, shown.description, shown.price, shown.category,
                        shown.seller_name, shown.seller_phone, shown.product_type,
                        shown.category_fields, TRUE)
    /\ dispatch' = "post_to_channel"
    /\ UNCHANGED <<intakeVars, clock, catalog, schedules, creating, sweep, outcome,
                   channel, channel_posts, engagement, counts, orders, ordering, last_tap,
                   shown, txn>>

\* post_product_now: the type and the fields are passed, the seller and
\* for_channel are not.
post_product_now ==
    /\ shown # NoRender
    /\ rendered' = Call(shown.title, shown.description, shown.price, shown.category,
                        NoText, NoText, shown.product_type, shown.category_fields, FALSE)
    /\ dispatch' = "post_now"
    /\ UNCHANGED <<intakeVars, clock, catalog, schedules, creating, sweep, outcome,
                   channel, channel_posts, engagement, counts, orders, ordering, last_tap,
                   shown, txn>>

\* check_and_post_scheduled: title, description, price and category only,
\* so product_type is the default "standard" and category_fields is None.
scheduled_caption ==
    /\ shown # NoRender
    /\ rendered' = Call(shown.title, shown.description, shown.price, shown.category,
                        NoText, NoText, "standard", <<>>, FALSE)
    /\ dispatch' = "sweep"
    /\ UNCHANGED <<intakeVars, clock, catalog, schedules, creating, sweep, outcome,
                   channel, channel_posts, engagement, counts, orders, ordering, last_tap,
                   shown, txn>>

\* show_my_product_carousel (/myproducts): the type and the fields are
\* passed, the seller and for_channel are not.
show_my_product_carousel ==
    /\ shown # NoRender
    /\ rendered' = Call(shown.title, shown.description, shown.price, shown.category,
                        NoText, NoText, shown.product_type, shown.category_fields, FALSE)
    /\ dispatch' = "my_products"
    /\ UNCHANGED <<intakeVars, clock, catalog, schedules, creating, sweep, outcome,
                   channel, channel_posts, engagement, counts, orders, ordering, last_tap,
                   shown, txn>>

\* A run that starts with one committed Product in the database.
InitDispatch ==
    /\ NoIntake
    /\ clock = 0
    /\ NoSchedules
    /\ NoTaps
    /\ rendered = NoRender
    /\ dispatch = "none"
    /\ shown \in Committed

NextDispatch ==
    \/ post_to_channel_caption
    \/ post_product_now
    \/ scheduled_caption
    \/ show_my_product_carousel

SpecDispatch == InitDispatch /\ [][NextDispatch]_vars

\* ------------------------------------------------------------- properties
TextStates == {"waiting_title", "waiting_description", "waiting_price",
               "waiting_category_fields"}

\* C1: the photo arrivals that share one batch id produce exactly one merge
\* event (one merge of the buffered photos into collected_photos with its one
\* 'Photo received' prompt), whatever the interleaving of the arrival
\* handlers with the album timer: no batch id is merged a second time.
C1_OneMergePerBatch == \A g \in Groups : merges[g] <= 1

\* C1 witness: one batch id was merged, and prompted for, twice.
C1_TwoMerges == \E g \in Groups : merges[g] = 2

\* C2: every photo appended to album_buffer under a batch id is merged into
\* collected_photos exactly once.  The buffer entry only grows by one new
\* photo or is emptied by the timer; while it holds photos a timer is pending
\* for it; when it is emptied collected_photos becomes what it was followed
\* by every buffered photo in order; and no buffered photo is already in
\* collected_photos.
C2_BufferedMergedOnce ==
    [][\A g \in Groups :
          /\ album_buffer'[g] # <<>> => tasks'[g] > 0
          /\ Range(album_buffer'[g]) \cap Range(Collected') = {}
          /\ album_buffer'[g] # album_buffer[g] =>
                \/ \E p \in PhotoIds :
                      /\ p \notin Range(album_buffer[g])
                      /\ album_buffer'[g] = Append(album_buffer[g], p)
                      /\ Collected' = Collected
                \/ /\ album_buffer'[g] = <<>>
                   /\ Collected' = Collected \o album_buffer[g]]_vars

\* C2 witness: a timer has merged an album and both photos of the run are
\* in collected_photos.
C2_Merged ==
    \E g \in Groups : /\ merges[g] = 1 /\ album_buffer[g] = <<>> /\ tasks[g] = 0
                      /\ Collected = <<1, 2>> /\ out = "photo_received"

\* C3: collected_photos never holds more than 8 entries, after any sequence
\* of standalone arrivals and album merges.
C3_AtMostEight == Len(Collected) <= PhotoCap

\* C3 witness: a ninth photo was stored and acknowledged.
C3_NinePhotos == Len(Collected) = PhotoCap + 1 /\ out = "additional_photo"

\* C4: when the draft was cancelled while photos of an album were buffered
\* and its timer pending, the later fire of that timer on the still cleared
\* draft is a no-op: draft data and state stay as they are, no prompt is
\* sent, and no Product is created.
C4_TimerAfterCancelIsNoOp ==
    [][\A g \in Groups :
          (g \in cancelled_albums /\ tasks'[g] < tasks[g]
             /\ fsmState = "none" /\ data = EmptyData)
          => (data' = data /\ fsmState' = fsmState /\ out' = out /\ products' = products)]_vars

\* C5: draft mutations are serialized: no write of collected_photos by a
\* photo-arrival handler or an album merge drops a photo that another one
\* had stored (only clearing the draft removes photos).
C5_NoLostUpdate ==
    [][data'.collected_photos # 0 => Range(Collected) \subseteq Range(Collected')]_vars

\* C6: a confirm_product event on a draft that lacks a field required for
\* its product type (photo_path, title, price, and description for
\* custom_description) persists no Product, starts no commit and leaves
\* state tag and data unchanged; so every persisted Product has these fields.
C6_IncompleteDraftNotCommitted ==
    [][/\ (/\ handle_confirm_product_begin
           /\ \/ data.photo_path = NoPath
              \/ data.title = -1
              \/ data.price = -1
              \/ data.product_type = "custom_description" /\ data.description = -1)
          => (products' = products /\ data' = data /\ fsmState' = fsmState /\ hs' = hs)
       /\ \A i \in 1..Len(products') :
             /\ products'[i].image_path # NoPath
             /\ products'[i].title # -1
             /\ products'[i].price # -1
             /\ products'[i].product_type = "custom_description"
                   => products'[i].description # -1]_vars

\* C6 witness: Create was tapped on a preview left in the chat after the
\* draft had been cleared; the bot answered with the error and nothing was
\* persisted.
C6_Refused ==
    /\ out = "error_creating_product" /\ kb.confirm > 0
    /\ fsmState = "none" /\ data = EmptyData
    /\ products = <<>> /\ Confirming = {}

\* C7: a confirm_product handler ends in exactly one of two ways: its Product
\* was persisted and the draft is cleared, or it persisted nothing and leaves
\* state tag and data as they are (storage failure); and a Product is only
\* ever persisted by a confirm handler, as the Product it built.
C7_CommitOutcome ==
    [][/\ \A s \in Slots :
             (hs[s].kind = "confirm" /\ hs'[s].kind # "confirm") =>
                \/ /\ hs[s].pc = "saved"
                   /\ \E i \in 1..Len(products') : products'[i] = hs[s].prod
                   /\ fsmState' = "none" /\ data' = EmptyData
                \/ /\ hs[s].pc = "saving"
                   /\ products' = products
                   /\ fsmState' = fsmState /\ data' = data
       /\ products' # products =>
             \E s \in Slots : /\ hs[s].kind = "confirm" /\ hs[s].pc = "saving"
                              /\ hs'[s].pc = "saved"
                              /\ products' = Append(products, hs[s].prod)]_vars

\* C7 witness: the storage layer failed on a complete draft; nothing is
\* persisted and the draft is still in the preview state with its data.
C7_Retained ==
    /\ out = "error_creating_product" /\ fsmState = "confirming"
    /\ CommitReady(data) /\ products = <<>> /\ Confirming = {}

\* C8: Done with exactly one collected photo skips main-image selection: the
\* state becomes waiting_title (standard) or waiting_description
\* (custom_description), main_image_index is 0 and all_images and
\* all_original_images hold one element.
C8_SinglePhotoSkipsSelection ==
    [][(handle_photos_done_begin /\ Len(Collected) = 1)
          => /\ fsmState' = TextPhase(data.product_type)
             /\ data'.main_image_index = 0
             /\ Len(data'.all_images) = 1
             /\ Len(data'.all_original_images) = 1]_vars

\* C8 witness: Done was tapped with one collected photo and answered with
\* the error alert; the draft is still collecting photos.
C8_StuckAtDone ==
    /\ out = "alert_error_processing_photos" /\ fsmState = "waiting_photo"
    /\ Len(Collected) = 1 /\ data.main_image_index = -1 /\ data.all_images = <<>>

\* C9: the draft leaves waiting_photo for a text-field state only through
\* waiting_main_image when it has more than one photo, never enters
\* waiting_main_image with one photo, and whenever it enters
\* waiting_main_image all_images holds the stamped variants of its (more
\* than one) photos.
C9_SelectionOnlyForSeveral ==
    [][/\ fsmState = "waiting_photo" /\ Len(Collected) > 1 => fsmState' \notin TextStates
       /\ (fsmState # "waiting_main_image" /\ fsmState' = "waiting_main_image") =>
             /\ Len(data'.all_images) > 1
             /\ \A i \in 1..Len(data'.all_images) :
                   \E p \in PhotoIds : data'.all_images[i] = StampedPath(p)]_vars

\* C9 witness: the draft waits for the main image and holds no image,
\* Cancel having cleared it while Done was sending the selection prompt.
C9_SelectionWithoutImages ==
    /\ fsmState = "waiting_main_image" /\ out = "select_main"
    /\ data.all_images = <<>> /\ data.collected_photos = 0

\* C10: Done with no collected photo fails with the EmptyAlbum notice: the
\* state stays waiting_photo and the draft data is unchanged.
C10_EmptyAlbum ==
    [][(handle_photos_done_begin /\ Collected = <<>>)
          => /\ out' = "empty_album"
             /\ fsmState' = "waiting_photo"
             /\ data' = data
             /\ hs' = hs]_vars

\* C10 witness: Done was tapped, on the prompt an earlier intake left in the
\* chat, before any photo of the new intake arrived.
C10_Refused ==
    /\ out = "empty_album" /\ fsmState = "waiting_photo"
    /\ data.collected_photos = 0 /\ nphotos = 0 /\ sessions = 1

\* C11 as stated: a select_main_<i> event with i outside [0, len(all_images))
\* is rejected with state and data unchanged; otherwise main_image_index = i,
\* photo_path = all_images[i] and the state advances to waiting_title
\* (standard) or waiting_description (custom_description).
C11_SelectionAlwaysAdvances ==
    [][\A i \in 0..PhotoCap :
          (\E sent \in BOOLEAN : select_main(i, sent)) =>
             IF i >= Len(data.all_images)
             THEN data' = data /\ fsmState' = fsmState
             ELSE /\ data'.main_image_index = i
                  /\ data'.photo_path = data.all_images[i + 1]
                  /\ data.product_type = "standard" => fsmState' = "waiting_title"
                  /\ data.product_type = "custom_description"
                        => fsmState' = "waiting_description"]_vars

\* C11: a select_main_<i> event with i outside [0, len(all_images)) is
\* rejected with state and data unchanged; otherwise main_image_index = i and
\* photo_path = all_images[i] are recorded, and the state advances to
\* waiting_title (standard) or waiting_description (custom_description) when
\* the replies are delivered; when a reply raises the state stays
\* waiting_main_image and the error notice is answered.
C11_SelectionOutcome ==
    [][\A i \in 0..PhotoCap, sent \in BOOLEAN :
          select_main(i, sent) =>
             IF i >= Len(data.all_images)
             THEN data' = data /\ fsmState' = fsmState /\ out' = "invalid_selection"
             ELSE /\ data'.main_image_index = i
                  /\ data'.photo_path = data.all_images[i + 1]
                  /\ sent /\ data.product_type = "standard" => fsmState' = "waiting_title"
                  /\ sent /\ data.product_type = "custom_description"
                        => fsmState' = "waiting_description"
                  /\ ~sent => /\ fsmState' = "waiting_main_image"
                              /\ out' = "error_selecting_main_image"]_vars

\* C11 witness: the second image of a custom_description draft was selected
\* and the draft waits for the description.
C11_Selected ==
    /\ out = "main_selected" /\ fsmState = "waiting_description"
    /\ data.product_type = "custom_description" /\ data.main_image_index = 1
    /\ Len(data.all_images) = 2 /\ data.photo_path = data.all_images[2]

\* C12: all_images and all_original_images always have equal length and are
\* index-parallel: entry k of all_images is the watermarked variant of the
\* photo whose original is entry k of all_original_images (the original
\* itself where watermarking fell back to it).
C12_ParallelLists ==
    /\ Len(data.all_images) = Len(data.all_original_images)
    /\ \A k \in 1..Len(data.all_images) :
          \E p \in 1..(MaxPhotos + PhotoCap) :
             /\ data.all_original_images[k] = OrigPath(p)
             /\ data.all_images[k] \in {StampedPath(p), OrigPath(p)}

\* C12 witness: two images wait for the selection, the first one kept as
\* its original because the watermark step fell back, the second one stamped.
C12_TwoImages ==
    /\ fsmState = "waiting_main_image" /\ Len(data.all_images) = 2
    /\ data.all_images[1] = OrigPath(1) /\ data.all_images[2] = StampedPath(2)
    /\ data.all_original_images = <<OrigPath(1), OrigPath(2)>>

C15_GalleryIsNonMain ==
    [][/\ \A s \in Slots :
             (hs[s].kind # "confirm" /\ hs'[s].kind = "confirm") =>
                LET all == data.all_images
                    k == data.main_image_index
                    gallery == hs'[s].prod.gallery
                IN IF all = <<>> \/ k = -1
                   THEN gallery = <<>>
                   ELSE /\ Len(gallery) = Cardinality({j \in 1..Len(all) : j # k + 1})
                        /\ \A m \in 1..Len(gallery) :
                              gallery[m] = all[IF m <= k THEN m ELSE m + 1]
       /\ \A s \in Slots :
             (hs[s].kind = "confirm" /\ hs[s].pc = "saving" /\ hs'[s].pc = "saved") =>
                products'[Len(products')].gallery = hs[s].prod.gallery]_vars

\* C15 witness: a Product was persisted for the second of three images; its
\* gallery holds the first and the third, in that order.
C15_GalleryOfTwo ==
    \E i \in 1..Len(products) :
        /\ products[i].image_path = StampedPath(MaxPhotos + 2)
        /\ products[i].gallery = <<StampedPath(MaxPhotos + 1), StampedPath(1)>>

\* C16: the cancel event is handled in whatever state the draft is in, and
\* after it the draft is cleared (no state tag, empty data) and no Product
\* has been created by it.
C16_CancelClears ==
    [][handle_cancel_fsm =>
          /\ fsmState' = "none"
          /\ data' = EmptyData
          /\ products' = products]_vars

\* C16 witness: Cancel was tapped on a preview; the draft is cleared although
\* the edit of the preview raised and the bot answered with the error alert.
C16_CancelledOnPreview ==
    /\ out = "error_cancelling" /\ fsmState = "none" /\ data = EmptyData
    /\ kb.confirm > 0 /\ products = <<>> /\ InFlight = {}

\* C17: after a cancel none of the image files downloaded or created for
\* the cancelled draft remains: the originals of its collected photos and
\* the files listed in all_images and all_original_images.
C17_CancelDiscardsFiles ==
    [][handle_cancel_fsm =>
          LET of_draft == {OrigPath(p) : p \in Range(Collected)}
                             \cup Range(data.all_images)
                             \cup Range(data.all_original_images)
          IN files' \cap of_draft = {}]_vars

\* C17 witness: the draft was cancelled at the main-image selection and the
\* originals and the stamped file of its two photos are still on disk.
C17_FilesLeftBehind ==
    /\ out = "cancelled" /\ fsmState = "none" /\ data = EmptyData
    /\ products = <<>> /\ InFlight = {}
    /\ {OrigPath(1), OrigPath(2), StampedPath(2)} \subseteq files

\* C18: every title stored in a draft has a length in [3, 200], every
\* description a length of at most 1000, and every price is a number p with
\* 0 < p <= 10,000,000 (rejected inputs store nothing).
C18_StoredTextsInBounds ==
    /\ data.title # -1 => (3 <= data.title /\ data.title <= 200)
    /\ data.description # -1 => (0 <= data.description /\ data.description <= 1000)
    /\ data.price # -1 => (data.price # NaN /\ 0 < data.price /\ data.price <= 10000000)

\* C18 witness: the text 'nan' was taken as the price and the preview of the
\* draft is shown.
C18_NaNPriceStored ==
    /\ data.price = NaN /\ fsmState = "confirming" /\ out = "preview"
    /\ data.title = 3 /\ data.description = 1

\* C19 as stated: each text input in waiting_category_fields stores the value
\* under the key at current_field_index and advances the cursor by one, and
\* after the last field the machine transitions to preview.
C19_EveryInputAdvances ==
    [][(category_field_received /\ data.category_fields # "absent"
           /\ data.current_field_index # -1) =>
          LET keys == get_category_fields(data.category_fields)
              k == data.current_field_index
          IN /\ keys[k + 1] \in Range(data'.field_values)
             /\ data'.current_field_index = k + 1
             /\ k + 1 = Len(keys) => fsmState' = "confirming"]_vars

\* C19: each text input in waiting_category_fields stores the value under
\* the key at current_field_index (a new key after the keys stored so far).
\* An input for any but the last field advances the cursor by one and stays
\* in the loop; an input for the last field leaves the cursor where it is and
\* transitions to preview if the preview is delivered; and whenever it does,
\* field_values holds exactly the category's field keys, each once, in the
\* category's fixed field order.
C19_FieldLoop ==
    [][(category_field_received /\ data.category_fields # "absent"
           /\ data.current_field_index # -1) =>
          LET keys == get_category_fields(data.category_fields)
              k == data.current_field_index
              old == data.field_values
          IN /\ data'.field_values =
                   IF \E j \in 1..Len(old) : old[j] = keys[k + 1]
                   THEN old ELSE old \o <<keys[k + 1]>>
             /\ IF k + 1 < Len(keys)
                THEN data'.current_field_index = k + 1 /\ fsmState' = fsmState
                ELSE /\ data'.current_field_index = k
                     /\ fsmState' \in {"confirming", fsmState}
                     /\ out' = "preview" => fsmState' = "confirming"
             /\ fsmState' = "confirming" => data'.field_values = keys]_vars

\* C19 witness: the last field of a phones draft was entered and the preview
\* is shown; field_values holds the five keys in order.
C19_AllFieldsStored ==
    /\ fsmState = "confirming" /\ out = "preview" /\ data.product_type = "standard"
    /\ data.field_values = <<"brand", "model", "storage", "condition", "battery">>
    /\ data.current_field_index = 4

\* C20: the photos of one batch are merged into collected_photos, after the
\* photos already collected, in the order in which their photo events
\* arrived (photo messages are numbered in arrival order), however the
\* per-photo handlers interleave while downloading.
C20_MergedInArrivalOrder ==
    [][\A g \in Groups :
          merges'[g] > merges[g] =>
             /\ Len(Collected') = Len(Collected) + Len(album_buffer[g])
             /\ \A i \in 1..Len(Collected) : Collected'[i] = Collected[i]
             /\ \A i, j \in (Len(Collected) + 1)..Len(Collected') :
                   i < j => Collected'[i] < Collected'[j]]_vars

\* C20 witness: an album of two photos was merged with the photo that
\* arrived second in front, its download having finished first.
C20_MergedOutOfOrder ==
    \E g \in Groups : /\ merges[g] = 1 /\ album_buffer[g] = <<>>
                      /\ Collected = <<2, 1>> /\ InFlight = {}

\* C21: a second fire of the album timer for the same batch id (a fire for
\* an id that was merged before) finds nothing buffered, merges nothing,
\* leaves the draft unchanged and sends no prompt.
C21_SecondFireIsNoOp ==
    [][\A g \in Groups :
          (tasks'[g] < tasks[g] /\ merges[g] >= 1) =>
             /\ album_buffer[g] = <<>>
             /\ merges'[g] = merges[g]
             /\ data' = data /\ cells' = cells
             /\ out' = out /\ kb' = kb]_vars

\* C21 witness: the timer of one batch id fired twice; the second fire found
\* the photo that was buffered after the first one, merged it and prompted.
C21_SecondFireMerged ==
    \E g \in Groups : /\ merges[g] = 2 /\ tasks[g] = 0 /\ album_buffer[g] = <<>>
                      /\ Len(Collected) = 2 /\ out = "photo_received"
                      /\ fsmState = "waiting_photo" /\ InFlight = {}

C23_NextPostAfterInterval ==
    creating # NoCreation =>
        LET schedule == schedules[creating.id]
            earliest == CHOOSE t \in (clock + 1)..(clock + DayHours) :
                            t % DayHours = post_hour(schedule.post_time)
        IN /\ creating.next_post = earliest + schedule.interval_days * DayHours
           /\ creating.next_post > clock

\* C23 witness: interval 2 and 09:00 computed at 10:00 of day 0 give 09:00
\* of day 3.
C23_TenOClockExample ==
    /\ creating # NoCreation
    /\ clock = 10
    /\ schedules[creating.id].interval_days = 2
    /\ schedules[creating.id].post_time = "09:00"
    /\ creating.next_post = 3 * DayHours + 9

\* C24: a turn of the sweep in which the dispatch for a due schedule fails
\* leaves next_post_at and last_posted_at of every schedule as they were, so
\* the schedule is still due; and a sweep that begins takes up every active
\* schedule that is due, so the failed one is attempted again.
C24_FailureKeepsScheduleDue ==
    [][/\ \A i \in ScheduleIds :
            (/\ sweep.running /\ sweep.queue # <<>> /\ Head(sweep.queue).id = i
             /\ sweep'.done = Append(sweep.done, i)
             /\ outcome'[i] \in Failures)
            => /\ schedules' = schedules
               /\ schedules[i].product > 0
                    => /\ schedules'[i].next_post_at # None
                       /\ schedules'[i].next_post_at <= sweep.now
       /\ (~sweep.running /\ sweep'.running)
            => \A i \in ScheduleIds :
                 (/\ schedules[i].product > 0 /\ schedules[i].is_active
                  /\ schedules[i].next_post_at # None /\ schedules[i].next_post_at <= clock)
                 => \E k \in 1..Len(sweep'.queue) :
                       /\ sweep'.queue[k].id = i
                       /\ sweep'.queue[k].row.next_post_at <= sweep'.now]_vars

\* C24 witness: a later sweep is about to attempt, as due, a schedule whose
\* dispatch failed in the sweep before.
C24_RetriedAtNextSweep ==
    /\ sweep.running
    /\ sweep.queue # <<>>
    /\ outcome[Head(sweep.queue).id] \in Failures
    /\ Head(sweep.queue).row.next_post_at # None
    /\ Head(sweep.queue).row.next_post_at <= sweep.now

\* C25: a turn of the sweep that fails for one schedule leaves the sweep
\* running with the rest of its schedules still to come and changes no
\* other schedule, and a sweep ends only when none of its schedules is left.
C25_FailureIsolated ==
    [][/\ (/\ sweep.running /\ sweep.queue # <<>>
           /\ sweep'.done = Append(sweep.done, Head(sweep.queue).id)
           /\ outcome'[Head(sweep.queue).id] \in Failures)
          => /\ sweep'.running
             /\ sweep'.now = sweep.now
             /\ sweep'.queue = Tail(sweep.queue)
             /\ \A j \in ScheduleIds \ {Head(sweep.queue).id} : schedules'[j] = schedules[j]
       /\ (sweep.running /\ ~sweep'.running) => sweep.queue = <<>>]_vars

\* C25 witness: in one sweep the dispatch for a schedule failed and a later
\* schedule was posted and advanced.
C25_SentAfterFailure ==
    \E k, l \in 1..Len(sweep.done) :
        /\ k < l
        /\ outcome[sweep.done[k]] \in Failures
        /\ outcome[sweep.done[l]] = "sent"
        /\ schedules[sweep.done[l]].last_posted_at = sweep.now
        /\ schedules[sweep.done[l]].next_post_at > sweep.now

\* C26: a turn of the sweep sends a post only for a schedule that was read
\* as active, has next_post_at set and at or before the sweep's time, and
\* whose Product exists and is active; a turn for a due schedule whose
\* Product is missing or inactive is a skip, not a failure, and changes no
\* schedule; a turn for a schedule that is not due sends and changes
\* nothing; and a sweep takes up no inactive schedule.
C26_OnlyDueActiveDispatched ==
    [][/\ (sweep.running /\ sweep.queue # <<>> /\ sweep'.done # sweep.done)
          => LET schedule == Head(sweep.queue).row
                 id == Head(sweep.queue).id
                 due == schedule.next_post_at # None /\ schedule.next_post_at <= sweep.now
             IN /\ channel' # channel
                     => /\ schedule.is_active
                        /\ due
                        /\ catalog[schedule.product] = "active"
                        /\ channel' = Append(channel, [product |-> schedule.product,
                                                       by |-> "scheduler", sold |-> FALSE])
                /\ (due /\ catalog[schedule.product] # "active")
                     => /\ outcome'[id] = "skipped"
                        /\ schedules' = schedules
                        /\ channel' = channel
                        /\ sweep'.queue = Tail(sweep.queue)
                /\ ~due => /\ schedules' = schedules
                           /\ channel' = channel
       /\ (~sweep.running /\ sweep'.running)
          => \A k \in 1..Len(sweep'.queue) :
                /\ sweep'.queue[k].row = schedules[sweep'.queue[k].id]
                /\ sweep'.queue[k].row.is_active]_vars

\* C26 witness: the sweep has skipped a due schedule whose Product is
\* inactive and left it as it was, never posted.
C26_InactiveProductSkipped ==
    \E k \in 1..Len(sweep.done) :
        LET schedule == schedules[sweep.done[k]]
        IN /\ outcome[sweep.done[k]] = "skipped"
           /\ schedule.product > 0
           /\ catalog[schedule.product] = "inactive"
           /\ schedule.next_post_at # None
           /\ schedule.next_post_at <= sweep.now
           /\ schedule.last_posted_at = None

\* C27: every message the scheduler has sent to the channel for a Product
\* that still exists is recorded as a channel post.
C27_ScheduledPostRecorded ==
    \A m \in 1..Len(channel) :
        (channel[m].by = "scheduler" /\ catalog[channel[m].product] # "missing")
            => m \in channel_posts

\* C27 witness: the seller's own later post of a Product was marked sold
\* while the earlier scheduled post of the same Product, recorded nowhere,
\* still shows the old caption, although the schedule was advanced.
C27_ScheduledPostNotMarkedSold ==
    \E m, n \in 1..Len(channel) :
        /\ n < m
        /\ channel[n].by = "scheduler"
        /\ n \notin channel_posts
        /\ ~channel[n].sold
        /\ channel[m].by = "seller"
        /\ channel[m].product = channel[n].product
        /\ channel[m].sold
        /\ \E i \in ScheduleIds : schedules[i].last_posted_at # None

\* C28: after two taps in a row of one user on the like button, the user's
\* liked flag and the product's likes_count are what they were before the
\* first tap; likewise for the save button, the saved flag and saves_count.
C28_TwoTogglesRestore ==
    last_tap.times = 2 =>
        /\ last_tap.button = "like"
              => /\ engagement[last_tap.user].liked = last_tap.flag
                 /\ counts.likes_count = last_tap.count
        /\ last_tap.button = "save"
              => /\ engagement[last_tap.user].saved = last_tap.flag
                 /\ counts.saves_count = last_tap.count

\* C28 witness: a user has liked and unliked a product another user likes,
\* and the counter is back at 1.
C28_LikedAndUnliked ==
    /\ last_tap.times = 2
    /\ last_tap.button = "like"
    /\ ~last_tap.flag
    /\ last_tap.count = 1
    /\ ~engagement[last_tap.user].liked
    /\ counts.likes_count = 1

\* C29: the three counters are never negative, and once every order
\* handler has finished orders_count is the number of Order rows.
C29_OrdersCountIsOrders ==
    /\ counts.likes_count >= 0
    /\ counts.saves_count >= 0
    /\ counts.orders_count >= 0
    /\ ordering = 0 => counts.orders_count = orders

\* C29 witness: one Order button tap was processed to its end; there is one
\* Order row and orders_count is 2.
C29_OneOrderCountedTwice ==
    /\ ordering = 0
    /\ orders = 1
    /\ counts.orders_count = 2

\* C30: the caption rendered for a custom_description product for the
\* channel is the escaped description and nothing else: whatever the title,
\* price, category and seller values, it has no title header, no price line
\* and no seller footer, and every special character of the description is
\* behind a backslash.
C30_ChannelCaptionIsDescription ==
    (/\ rendered.product_type = "custom_description" /\ rendered.for_channel
     /\ rendered.caption # <<"not rendered">>)
        => LET caption == rendered.caption
               description == IF rendered.description = NoText THEN <<>>
                              ELSE rendered.description
               plain == {k \in 1..Len(caption) : caption[k] # "\\"}
           IN /\ \A k \in 1..Len(caption) :
                    /\ caption[k] \in TextChars \cup {"\\"}
                    /\ caption[k] = "\\" => k < Len(caption) /\ caption[k + 1] \in special_chars
                    /\ caption[k] \in special_chars => k > 1 /\ caption[k - 1] = "\\"
              /\ Cardinality(plain) = Len(description)
              /\ \A k \in plain :
                    caption[k] = description[Cardinality({j \in plain : j <= k})]

\* C30 witness: a custom_description product with a title, a price and
\* seller values was rendered for the channel, and the caption is its
\* description with the special character escaped.
C30_OnlyDescriptionRendered ==
    /\ rendered.product_type = "custom_description"
    /\ rendered.for_channel
    /\ rendered.title # NoText
    /\ rendered.price = 2500
    /\ rendered.seller_name # NoText
    /\ rendered.seller_phone # NoText
    /\ rendered.description = <<"d", "_">>
    /\ rendered.caption = <<"d", "\\", "_">>

\* C31: every path that dispatches a custom_description product to a channel
\* (the post after the commit, post-now, the scheduled sweep) sends a caption
\* that is the description alone, without a title or price header.
C31_EveryDispatchIsDescription ==
    (shown.product_type = "custom_description"
     /\ dispatch \in {"post_to_channel", "post_now", "sweep"})
        => rendered.caption = escape_markdown(shown.description)

\* A custom_description product with a title went out through post-now or
\* the sweep under a title header.
C31_DispatchedWithTitleHeader ==
    /\ shown.product_type = "custom_description"
    /\ Truthy(shown.title)
    /\ dispatch \in {"post_now", "sweep"}
    /\ rendered.caption # escape_markdown(shown.description)
    /\ Head(rendered.caption) = "[bag] **"

\* C32: a draft is committed at most once: under any interleaving of two
\* confirm_product events on one preview, one Product at most is persisted.
C32_DraftCommittedOnce == sessions = 0 => Len(products) <= 1

\* Two taps on Create, the second handled while the first waits for the
\* database: the one draft is in the database twice.
C32_CommittedTwice ==
    /\ sessions = 0
    /\ Len(products) = 2
    /\ products[1] = products[2]

\* C33: a commit is started only in state confirming: a confirm_product
\* event received in any other state creates no Product.
C33_CommitOnlyWhenConfirming ==
    [][(\E s \in Slots : hs[s].kind # "confirm" /\ hs'[s].kind = "confirm")
          => fsmState = "confirming"]_vars

\* The draft previewed was of the custom type; the type was changed by a
\* tap that also left confirming, and Create on the old preview persisted it.
C33_CommittedOutsideConfirming ==
    \E i \in 1..Len(products) :
        /\ products[i].product_type = "standard"
        /\ products[i].image_path = StampedPath(MaxPhotos + 1)

\* C34: a type button changes product_type or the state only in
\* waiting_product_type and a category button changes the category or the
\* state only in waiting_category; in any other state the draft is left as
\* it is.
C34_SelectionOnlyInItsState ==
    [][/\ (kb'.type < kb.type /\ out' \in {"choose_category", "send_photo"}
            /\ fsmState # "waiting_product_type")
           => (fsmState' = fsmState /\ data' = data)
       /\ (kb'.category < kb.category /\ out' = "send_photo"
            /\ fsmState # "waiting_category")
           => (fsmState' = fsmState /\ data' = data)]_vars

\* A type button tapped on the keyboard of an abandoned /addproduct took
\* the complete draft from confirming back to waiting_photo.
C34_PreviewedDraftBackAtPhotos ==
    /\ sessions = 0
    /\ fsmState = "waiting_photo"
    /\ kb.type = 0
    /\ data.title = 3
    /\ data.photo_path = StampedPath(MaxPhotos + 1)

\* C35: every /addproduct session begins with an empty draft, so nothing an
\* earlier, abandoned session left is carried into the Product committed.
C35_SessionBeginsEmpty ==
    [][sessions' = sessions + 1 => data' = EmptyData]_vars

\* /addproduct was just answered and the draft still holds the photo, the
\* title and the price of the session before.
C35_SessionBeginsWithOldDraft ==
    /\ sessions = 1
    /\ fsmState = "waiting_product_type"
    /\ out = "choose_type"
    /\ data.title = 3
    /\ data.price = 2500
    /\ data.photo_path = StampedPath(MaxPhotos + 1)

\* C36: an album merge changes a draft only in state waiting_photo: a timer
\* that fires after Done was handled leaves collected_photos as it is, so
\* all_images stays the stamped variant of the photos collected.
C36_MergeOnlyWhileCollecting ==
    [][\A g \in Groups :
          (tasks'[g] < tasks[g] /\ fsmState # "waiting_photo")
             => (data' = data /\ cells' = cells)]_vars

\* The only photo message of the run was an album photo merged after Done
\* had read the draft: the draft is past the photo step with three photos
\* collected and two in all_images.
C36_MergedAfterDone ==
    /\ fsmState \in {"waiting_main_image", "waiting_description", "waiting_title",
                      "waiting_price", "confirming"}
    /\ \E g \in Groups : merges[g] = 1
    /\ InFlight = {}
    /\ Len(data.all_images) = 2
    /\ Len(Collected) = 3

\* C37: rendering the caption succeeds for every committed Product, so a
\* standard product made from two photos can be shown in /myproducts and
\* posted (the reserved key _gallery_images breaks no field line).
C37_CommittedProductRenders ==
    dispatch # "none" => rendered.caption # AttributeError

\* /myproducts and the post to the channel raise for a standard product
\* that has a gallery.
C37_GalleryBreaksCaption ==
    /\ shown.product_type = "standard"
    /\ \E i \in 1..Len(shown.category_fields) : shown.category_fields[i] = gallery_images
    /\ dispatch \in {"my_products", "post_to_channel"}
    /\ rendered.caption = AttributeError

\* C38: likes_count equals the number of users whose liked flag is set, and
\* saves_count the number of users whose saved flag is set, after any
\* interleaving of concurrent toggle transactions, two of one user included.
C38_CountersMatchFlags ==
    (\A t \in Txns : txn[t].pc = "idle")
        => /\ counts.likes_count = Cardinality({u \in Buyers : engagement[u].liked})
           /\ counts.saves_count = Cardinality({u \in Buyers : engagement[u].saved})

\* Two like transactions of one user both read liked = false: one user
\* likes the product and likes_count is 2.
C38_OneLikerCountedTwice ==
    /\ \A t \in Txns : txn[t].pc = "idle"
    /\ Cardinality({u \in Buyers : engagement[u].liked}) = 1
    /\ counts.likes_count = 2

====
